---- MODULE Spec2Model ----
(***************************************************************************)
(* Agent Runtime MCP server (src/mcp-servers/agent-runtime-mcp/server.py): *)
(* the goals, the task queue, the relay pipelines and the circuit          *)
(* breakers, as state machines over the rows of the SQLite store.          *)
(*                                                                         *)
(* Every tool handler is an `async def` without an await, so inside one    *)
(* server process a handler runs from its first statement to its commit    *)
(* without interleaving: TaskSpec, TaskClockSpec, QueueSpec, GoalSpec,     *)
(* RelaySpec and BreakerSpec take each handler as one action, and so do    *)
(* the workers of WorkerSpec, clients that take a task and complete it     *)
(* (WorkerFairSpec: no worker stops between its calls).  Several server    *)
(* processes share the database file (get_db_connection, timeout=30.0).    *)
(* The sqlite3 module opens a transaction only before the first            *)
(* INSERT/UPDATE of a handler, so the SELECTs a handler starts with read   *)
(* committed state and keep no lock, while the writes up to conn.commit()  *)
(* exclude every other writer: TaskConcSpec and RelayConcSpec split        *)
(* get_next_task and advance_relay at that point, one caller per server    *)
(* process.                                                                *)
(*                                                                         *)
(* Columns that no handler reads back to decide anything and no property   *)
(* below mentions (description, result, error, updated_at,                 *)
(* tasks.completed_at, pipeline name and goal) are left out of the rows.   *)
(*                                                                         *)
(* Enhanced Memory MCP server                                              *)
(* (src/mcp-servers/enhanced-memory-mcp/server.py): entities with their    *)
(* observations and versions (CreateSpec, SearchSpec, VersionSpec), the    *)
(* working memory with its readers (WorkingSpec, CurationSpec,             *)
(* PromoteSpec) and episodes and concepts (LearnSpec), one action per      *)
(* handler.  Strings are sequences of characters, Python floats are exact  *)
(* doubles, and the JSON texts the store keeps (snapshot, episode_data)    *)
(* are the objects they encode.  metadata, content, entity_id of a working *)
(* item and the timestamps of entities are left out of the rows.           *)
(*                                                                         *)
(* LLM Council MCP server (src/mcp-servers/llm-council-mcp): one           *)
(* council_deliberate or council_compare_providers call (CouncilSpec) and  *)
(* one council_run_pattern call of the round robin pattern (PatternSpec),  *)
(* cut at their awaits, save_conversation on its own (SaveSpec), and the   *)
(* way from the outputs of Stage 1 and Stage 2 to the chairman's prompt on *)
(* its own (RankingSpec).  A provider is a subprocess whose outcome is     *)
(* open: output and exit 0, another exit code, output that does not        *)
(* decode, or no end before the deadline.  The three CLI tools are taken   *)
(* as installed.  A text is kept as what the code reads from it: an answer *)
(* by its author, an evaluation by the labels of its FINAL RANKING section *)
(* and of its Response mentions.                                           *)
(*                                                                         *)
(* SAFLA MCP server (src/mcp-servers/safla-mcp/server.py): the             *)
(* generate_embeddings tool in local mode without an embedding model       *)
(* (EmbedSpec).                                                            *)
(***************************************************************************)
EXTENDS Integers, Sequences, FiniteSets, TLC

\* ---------------------------------------------------------------- bounds
MaxTasks == 2
MaxTime == 2
MaxPipelines == 1
MaxAgents == 3
MaxOverrun == 1
MaxFailures == 6
MaxBatch == 2
MaxAccess == 2
MaxItems == 2
MaxEpisodes == 2
ClockResolution == 2
MaxGoals == 1
MaxDecompositions == 1
MaxTexts == 4
MaxEvaluators == 2
MaxRounds == 1

\* ------------------------------------------------------------- constants
\* SQL NULL in a numeric or TIMESTAMP column.
NULL == -1
\* Python None returned by get_next_task.
NoTask == 0
DefaultPriority == 5
HighestPriority == 10
DefaultFailureThreshold == 5
DefaultWindowSeconds == 60
DefaultCooldownSeconds == 300
DefaultLimit == 10
DefaultWorkingPriority == 5
DefaultWorkingLimit == 50
PromotionThreshold == 5
EmbeddingSize == 384
MaxLabels == 26

TaskStatus == {"pending", "in_progress", "completed", "failed", "cancelled"}
Priorities == {DefaultPriority, HighestPriority}
\* dependencies arguments of create_task: none, one id (an earlier task, the
\* task itself or an id no task has yet), two ids.
DepLists == {<<>>, <<1>>, <<1, 2>>}
\* agent_types arguments of create_relay_pipeline, the empty list included.
AgentOrder == <<"r", "a", "s", "x">>
AgentLists == {SubSeq(AgentOrder, 1, n) : n \in 0..MaxAgents}
TokenBudgets == {1000}
\* Arguments of advance_relay; scores in tenths.  The second call spends
\* more tokens than the whole budget and passes no summary.
AdvanceArgs ==
    {[quality_score |-> 8, l_score |-> 9, output_entity_id |-> 42,
      tokens_used |-> 100, output_summary |-> "ok"],
     [quality_score |-> 5, l_score |-> 5, output_entity_id |-> 7,
      tokens_used |-> 2000, output_summary |-> "None"]}
BreakerAgents == {"X", "Y"}
Callers == {"c1", "c2"}

\* Inputs of create_entities: names that meet in a case-insensitive match,
\* one of them with a keyword; no observations, one with a keyword, and
\* more than three.
NoObservations == <<>>
OneError == << <<"e", "r", "r", "o", "r">> >>
FourObservations == << <<"x">>, <<"a">>, <<"x">>, <<"a">> >>
EntityInputs ==
    {[name |-> <<"a">>, entityType |-> "t", observations |-> NoObservations],
     [name |-> <<"a">>, entityType |-> "t", observations |-> OneError],
     [name |-> <<"b">>, entityType |-> "t",
      observations |-> FourObservations],
     [name |-> <<"B", "u", "g">>, entityType |-> "t",
      observations |-> FourObservations]}
Batches == UNION {[1..n -> EntityInputs] : n \in 0..MaxBatch}

\* Queries of search_nodes: met by a name and by observations, by names in
\* either case, and through a wildcard; a limit of one and the default.
Queries == {<<"a">>, <<"b">>, <<"u", "_">>}
Limits == {1, DefaultLimit}

\* Inputs of the working memory: two context keys; an item that has
\* expired a minute after it was added and one that lasts a minute longer;
\* readers with no context_key or with one, a limit of one or the default.
ContextKeys == {"k1", "k2"}
Ttls == {0, 1}
ContextFilters == {"None", "k1"}
WorkingLimits == {1, DefaultWorkingLimit}

VARIABLES
    now,               \* CURRENT_TIMESTAMP of the store, in seconds
    goals,             \* table goals: id (AUTOINCREMENT) -> row
    tasks,             \* table tasks: id (AUTOINCREMENT) -> row
    pipelines,         \* table relay_pipelines: id -> row
    relay_steps,       \* table relay_steps: pipeline id -> rows by step_index
    circuit_breakers,  \* table circuit_breakers: agent_id -> row
    ret,               \* the value the last handler returned
    callers,           \* per caller process: where it is in its handler
    advance_calls,     \* history: pipeline id -> arguments of the
                       \* advance_relay calls made on it, in order
    entities,          \* memory store, table entities: id -> row
    observations,      \* table observations: id -> row
    entity_versions,   \* table entity_versions: id -> row
    working_memory,    \* table working_memory: id -> row, or Purged
    episodic_memory,   \* table episodic_memory: id -> row
    semantic_memory,   \* table semantic_memory: id -> row
    council,           \* council server: where the running handler is
    queries,           \* the provider queries of the handler, in the order
                       \* they were started, each with its subprocess
    conversations      \* CONVERSATIONS_DIR: conversation id -> file

\* The tables of the agent runtime store and of the memory store.
runtime_tables ==
    <<goals, tasks, pipelines, relay_steps, circuit_breakers, callers,
      advance_calls>>

memory_tables ==
    <<entities, observations, entity_versions, working_memory,
      episodic_memory, semantic_memory>>

council_tables == <<council, queries, conversations>>

vars == <<now, ret, runtime_tables, memory_tables, council_tables>>

Min(S) == CHOOSE x \in S : \A y \in S : x <= y

Idle == [pc |-> "idle"]

\* ------------------------------------------------------------ task queue
TaskIds(T) == DOMAIN T

\* ORDER BY priority DESC, created_at ASC: row a sorts strictly before row b.
RowBeforeAsc(T, a, b) ==
    \/ T[a].priority < T[b].priority
    \/ T[a].priority = T[b].priority /\ T[a].created_at < T[b].created_at

RowBefore(T, a, b) ==
    \/ T[a].priority > T[b].priority
    \/ T[a].priority = T[b].priority /\ T[a].created_at < T[b].created_at

PendingRows(T) == {i \in TaskIds(T) : T[i].status = "pending"}

\* The result sets SELECT ... WHERE status = 'pending' ORDER BY ... may
\* return: every arrangement of the pending rows that respects the ORDER BY
\* (rows equal in both keys come in an order SQL leaves open).
QueryPending(T) ==
    LET P == PendingRows(T)
        n == Cardinality(P)
    IN {s \in [1..n -> P] :
            /\ \A i, j \in 1..n : i # j => s[i] # s[j]
            /\ \A i, j \in 1..n : i < j => ~RowBefore(T, s[j], s[i])}

\* The inner loop of get_next_task: every dep_id names a row whose status is
\* 'completed'.
DepsMet(T, i) ==
    \A k \in DOMAIN T[i].dependencies :
        LET dep_id == T[i].dependencies[k]
        IN dep_id \in TaskIds(T) /\ T[dep_id].status = "completed"

FirstRowIfDepsMet(T, rows) ==
    IF rows # <<>> /\ DepsMet(T, rows[1]) THEN rows[1] ELSE NoTask

\* The outer loop of get_next_task: the first fetched row with deps_met.
FirstDepsMet(T, rows) ==
    LET hits == {i \in DOMAIN rows : DepsMet(T, rows[i])}
    IN IF hits = {} THEN NoTask ELSE rows[Min(hits)]

NewTask(priority, dependencies) ==
    [title |-> <<"task">>, goal_id |-> NULL, status |-> "pending",
     priority |-> priority, dependencies |-> dependencies,
     created_at |-> now, started_at |-> NULL]

create_task(priority, dependencies) ==
    /\ Len(tasks) < MaxTasks
    /\ tasks' = Append(tasks, NewTask(priority, dependencies))
    /\ ret' = [op |-> "create_task", task_id |-> Len(tasks) + 1,
               status |-> "pending"]
    /\ UNCHANGED memory_tables
    /\ UNCHANGED council_tables
    /\ UNCHANGED advance_calls
    /\ UNCHANGED goals
    /\ UNCHANGED <<now, pipelines, relay_steps, circuit_breakers, callers>>

\* UPDATE tasks SET status = 'in_progress', started_at = CURRENT_TIMESTAMP
\* WHERE id = ?
MarkInProgress(T, id) ==
    [T EXCEPT ![id].status = "in_progress", ![id].started_at = now]

get_next_task ==
    /\ \E rows \in QueryPending(tasks) :
         LET id == FirstDepsMet(tasks, rows)
         IN /\ tasks' = IF id = NoTask THEN tasks
                        ELSE MarkInProgress(tasks, id)
            /\ ret' = [op |-> "get_next_task", task_id |-> id]
    /\ UNCHANGED memory_tables
    /\ UNCHANGED council_tables
    /\ UNCHANGED advance_calls
    /\ UNCHANGED goals
    /\ UNCHANGED <<now, pipelines, relay_steps, circuit_breakers, callers>>

\* UPDATE tasks SET status = ?, ... WHERE id = ?: no row is touched when
\* task_id names none, and no transition is refused.
SetStatus(T, task_id, status) ==
    IF task_id \notin TaskIds(T) THEN T
    ELSE [T EXCEPT ![task_id].status = status]

update_task_status(task_id, status) ==
    /\ tasks' = SetStatus(tasks, task_id, status)
    /\ ret' = [op |-> "update_task_status", task_id |-> task_id,
               status |-> status]
    /\ UNCHANGED memory_tables
    /\ UNCHANGED council_tables
    /\ UNCHANGED advance_calls
    /\ UNCHANGED goals
    /\ UNCHANGED <<now, pipelines, relay_steps, circuit_breakers, callers>>

\* A worker: a client that calls get_next_task and, given a task, calls
\* update_task_status(task, 'completed') for it before asking again.  Each
\* call is a whole run of its handler.
worker_get_next_task(c) ==
    /\ callers[c].pc = "idle"
    /\ \E rows \in QueryPending(tasks) :
         LET id == FirstDepsMet(tasks, rows)
         IN /\ tasks' = IF id = NoTask THEN tasks
                        ELSE MarkInProgress(tasks, id)
            /\ ret' = [op |-> "get_next_task", task_id |-> id]
            /\ callers' = [callers EXCEPT ![c] =
                   IF id = NoTask THEN Idle
                   ELSE [pc |-> "working", task_id |-> id]]
    /\ UNCHANGED memory_tables
    /\ UNCHANGED council_tables
    /\ UNCHANGED advance_calls
    /\ UNCHANGED goals
    /\ UNCHANGED <<now, pipelines, relay_steps, circuit_breakers>>

worker_update_task_status(c) ==
    /\ callers[c].pc = "working"
    /\ tasks' = SetStatus(tasks, callers[c].task_id, "completed")
    /\ ret' = [op |-> "update_task_status",
               task_id |-> callers[c].task_id, status |-> "completed"]
    /\ callers' = [callers EXCEPT ![c] = Idle]
    /\ UNCHANGED memory_tables
    /\ UNCHANGED council_tables
    /\ UNCHANGED advance_calls
    /\ UNCHANGED goals
    /\ UNCHANGED <<now, pipelines, relay_steps, circuit_breakers>>

get_task(task_id) ==
    /\ ret' = IF task_id \notin TaskIds(tasks)
              THEN [op |-> "get_task", error |-> "not found",
                    id |-> task_id]
              ELSE [op |-> "get_task", id |-> task_id,
                    row |-> tasks[task_id]]
    /\ UNCHANGED <<goals, tasks>>
    /\ UNCHANGED memory_tables
    /\ UNCHANGED council_tables
    /\ UNCHANGED advance_calls
    /\ UNCHANGED <<now, pipelines, relay_steps, circuit_breakers, callers>>

\* ------------------------------------------------------------------ goals
\* goals is the sequence of the rows inserted, by id; no handler deletes a
\* goal.  metadata and the timestamps are left out of the rows.
create_goal(name, description) ==
    /\ Len(goals) < MaxGoals
    /\ goals' = Append(goals, [name |-> name, description |-> description,
                               status |-> "active"])
    /\ ret' = [op |-> "create_goal", goal_id |-> Len(goals) + 1,
               name |-> name, status |-> "active"]
    /\ UNCHANGED tasks
    /\ UNCHANGED memory_tables
    /\ UNCHANGED council_tables
    /\ UNCHANGED advance_calls
    /\ UNCHANGED <<now, pipelines, relay_steps, circuit_breakers, callers>>

\* The tasks of a goal; the order of the returned list (priority DESC) is
\* left out.
get_goal(goal_id) ==
    /\ ret' = IF goal_id \notin DOMAIN goals
              THEN [op |-> "get_goal", error |-> "not found", id |-> goal_id]
              ELSE LET found == {t \in TaskIds(tasks) :
                                   tasks[t].goal_id = goal_id}
                   IN [op |-> "get_goal", id |-> goal_id,
                       name |-> goals[goal_id].name,
                       status |-> goals[goal_id].status,
                       tasks |-> found, task_count |-> Cardinality(found)]
    /\ UNCHANGED <<goals, tasks>>
    /\ UNCHANGED memory_tables
    /\ UNCHANGED council_tables
    /\ UNCHANGED advance_calls
    /\ UNCHANGED <<now, pipelines, relay_steps, circuit_breakers, callers>>

\* The title prefixes of the tasks of a strategy, none for a strategy the
\* handler does not know.
Template(strategy) ==
    CASE strategy = "sequential" ->
            <<"Analyze requirements for", "Design solution for",
              "Implement", "Test", "Document">>
      [] strategy = "parallel" -> <<"Research", "Prototype", "Review">>
      [] strategy = "hierarchical" ->
            <<"Plan", "Execute Phase 1", "Execute Phase 2", "Integrate",
              "Validate">>
      [] OTHER -> <<>>

\* deps = [task_ids[-1]] if task_ids and strategy == "sequential" else []
DependsOnAll(first_id, i, strategy) ==
    IF strategy = "sequential" THEN [k \in 1..(i - 1) |-> first_id + k - 1]
    ELSE <<>>

DependsOnPrevious(first_id, i, strategy) ==
    IF i > 1 /\ strategy = "sequential" THEN <<first_id + i - 2>> ELSE <<>>

\* The rows decompose_goal inserts, the first one under id first_id: the
\* title f"{prefix}: {goal['name']}" is kept as the pair, the priority is
\* 10 - i for i counted from 0.
DecomposedTasks(goal_id, strategy, first_id) ==
    [i \in DOMAIN Template(strategy) |->
        [title |-> <<Template(strategy)[i], goals[goal_id].name>>,
         goal_id |-> goal_id, status |-> "pending",
         priority |-> HighestPriority - (i - 1),
         dependencies |-> DependsOnPrevious(first_id, i, strategy),
         created_at |-> now, started_at |-> NULL]]

\* The model stops decomposing once MaxDecompositions - 1 whole templates
\* are stored.
decompose_goal(goal_id, strategy) ==
    /\ Len(tasks) <= (MaxDecompositions - 1) * Len(Template("sequential"))
    /\ IF goal_id \notin DOMAIN goals
       THEN /\ ret' = [op |-> "decompose_goal", error |-> "not found",
                       id |-> goal_id]
            /\ UNCHANGED tasks
       ELSE LET rows == DecomposedTasks(goal_id, strategy, Len(tasks) + 1)
            IN /\ tasks' = tasks \o rows
               /\ ret' = [op |-> "decompose_goal", goal_id |-> goal_id,
                          strategy |-> strategy,
                          task_ids |-> [i \in DOMAIN rows |->
                                           Len(tasks) + i],
                          task_count |-> Len(rows)]
    /\ UNCHANGED goals
    /\ UNCHANGED memory_tables
    /\ UNCHANGED council_tables
    /\ UNCHANGED advance_calls
    /\ UNCHANGED <<now, pipelines, relay_steps, circuit_breakers, callers>>

Tick ==
    /\ now < MaxTime
    /\ now' = now + 1
    /\ UNCHANGED memory_tables
    /\ UNCHANGED council_tables
    /\ UNCHANGED advance_calls
    /\ UNCHANGED goals
    /\ UNCHANGED <<tasks, pipelines, relay_steps, circuit_breakers, ret,
                   callers>>

\* Time between two calls: more than a breaker's window_seconds, or its
\* cooldown_seconds.
Waits == {DefaultWindowSeconds + 1, DefaultCooldownSeconds}

\* The clock moves on by a longer wait (once: the clock then stays put).
Elapse(seconds) ==
    /\ now <= MaxTime
    /\ now' = now + seconds
    /\ UNCHANGED memory_tables
    /\ UNCHANGED council_tables
    /\ UNCHANGED advance_calls
    /\ UNCHANGED goals
    /\ UNCHANGED <<tasks, pipelines, relay_steps, circuit_breakers, ret,
                   callers>>

\* ------------------------------------------------------- relay pipelines
PipelineIds(P) == DOMAIN P

NewPipeline(agent_types, token_budget) ==
    [agent_types |-> agent_types, status |-> "pending", current_step |-> 0,
     token_budget |-> token_budget, tokens_used |-> 0, baton_data |-> <<>>,
     completed_at |-> NULL]

\* One relay_steps row per agent type; step_index i is kept at position i+1.
NewSteps(agent_types) ==
    [i \in 1..Len(agent_types) |->
        [agent_type |-> agent_types[i], status |-> "pending",
         quality_score |-> NULL, l_score |-> NULL, output_entity_id |-> NULL,
         tokens_used |-> 0, started_at |-> NULL, completed_at |-> NULL]]

create_relay_pipeline(agent_types, token_budget) ==
    /\ Len(pipelines) < MaxPipelines
    /\ pipelines' = Append(pipelines, NewPipeline(agent_types, token_budget))
    /\ relay_steps' = Append(relay_steps, NewSteps(agent_types))
    /\ ret' = [op |-> "create_relay_pipeline",
               pipeline_id |-> Len(pipelines) + 1,
               steps |-> Len(agent_types), token_budget |-> token_budget]
    /\ advance_calls' = Append(advance_calls, <<>>)
    /\ UNCHANGED memory_tables
    /\ UNCHANGED council_tables
    /\ UNCHANGED <<now, goals, tasks, circuit_breakers, callers>>

NotFound(op, id) == [op |-> op, error |-> "not found", id |-> id]

get_relay_status(pipeline_id) ==
    /\ ret' = IF pipeline_id \notin PipelineIds(pipelines)
              THEN NotFound("get_relay_status", pipeline_id)
              ELSE LET pipeline == pipelines[pipeline_id]
                   IN [op |-> "get_relay_status",
                       pipeline_id |-> pipeline_id,
                       status |-> pipeline.status,
                       current_step |-> pipeline.current_step,
                       total_steps |-> Len(relay_steps[pipeline_id]),
                       tokens_used |-> pipeline.tokens_used,
                       token_budget |-> pipeline.token_budget,
                       steps |-> relay_steps[pipeline_id]]
    /\ UNCHANGED memory_tables
    /\ UNCHANGED council_tables
    /\ UNCHANGED advance_calls
    /\ UNCHANGED goals
    /\ UNCHANGED <<now, tasks, pipelines, relay_steps, circuit_breakers,
                   callers>>

\* UPDATE relay_steps SET status = 'completed', ... WHERE pipeline_id = ? AND
\* step_index = ?: touches no row when no step has that index.
CompleteStep(S, step_index, a) ==
    IF step_index + 1 \notin DOMAIN S THEN S
    ELSE [S EXCEPT ![step_index + 1] =
            [@ EXCEPT !.status = "completed",
                      !.quality_score = a.quality_score,
                      !.l_score = a.l_score,
                      !.output_entity_id = a.output_entity_id,
                      !.tokens_used = a.tokens_used,
                      !.completed_at = now]]

\* UPDATE relay_steps SET status = 'in_progress', started_at = ... WHERE
\* pipeline_id = ? AND step_index = ?
StartStep(S, step_index) ==
    IF step_index + 1 \notin DOMAIN S THEN S
    ELSE [S EXCEPT ![step_index + 1] =
            [@ EXCEPT !.status = "in_progress", !.started_at = now]]

BatonOfNewStep(current_step, a) ==
    [previous_step |-> current_step + 1, quality_score |-> a.quality_score,
     l_score |-> a.l_score, output_entity_id |-> a.output_entity_id,
     summary |-> a.output_summary]

\* The baton advance_relay stores when it hands over: previous_step is the
\* step just completed.
Baton(current_step, a) ==
    [previous_step |-> current_step, quality_score |-> a.quality_score,
     l_score |-> a.l_score, output_entity_id |-> a.output_entity_id,
     summary |-> a.output_summary]

\* `if new_step >= len(agent_types)`: the call that ends the pipeline.
IsLastStep(pipeline) ==
    pipeline.current_step + 1 >= Len(pipeline.agent_types)

NewTokens(pipeline, a) == pipeline.tokens_used + a.tokens_used

\* The relay_pipelines row after advance_relay's UPDATE.  `pipeline` is the
\* row as the handler's SELECT read it, `row` the row the UPDATE rewrites.
AdvancedPipeline(row, pipeline, a) ==
    IF IsLastStep(pipeline)
    THEN [row EXCEPT !.status = "completed",
                     !.current_step = pipeline.current_step + 1,
                     !.tokens_used = NewTokens(pipeline, a),
                     !.completed_at = now]
    ELSE [row EXCEPT !.current_step = pipeline.current_step + 1,
                     !.tokens_used = NewTokens(pipeline, a),
                     !.baton_data = Baton(pipeline.current_step, a)]

AdvancedSteps(S, pipeline, a) ==
    IF IsLastStep(pipeline)
    THEN CompleteStep(S, pipeline.current_step, a)
    ELSE StartStep(CompleteStep(S, pipeline.current_step, a),
                   pipeline.current_step + 1)

AdvanceResult(pipeline_id, pipeline, a) ==
    IF IsLastStep(pipeline)
    THEN [op |-> "advance_relay", pipeline_id |-> pipeline_id,
          status |-> "completed", total_tokens |-> NewTokens(pipeline, a)]
    ELSE [op |-> "advance_relay", pipeline_id |-> pipeline_id,
          status |-> "in_progress",
          current_step |-> pipeline.current_step + 1,
          next_agent |-> pipeline.agent_types[pipeline.current_step + 2],
          tokens_remaining |->
              pipeline.token_budget - NewTokens(pipeline, a)]

\* The model stops advancing a pipeline MaxOverrun calls after its last step.
CanAdvance(pipeline) ==
    pipeline.current_step < Len(pipeline.agent_types) + MaxOverrun

advance_relay(pipeline_id, a) ==
    /\ IF pipeline_id \notin PipelineIds(pipelines)
       THEN /\ ret' = NotFound("advance_relay", pipeline_id)
            /\ UNCHANGED <<pipelines, relay_steps, advance_calls>>
       ELSE LET pipeline == pipelines[pipeline_id]
            IN /\ CanAdvance(pipeline)
               /\ pipelines' =
                    [pipelines EXCEPT ![pipeline_id] =
                        AdvancedPipeline(pipeline, pipeline, a)]
               /\ relay_steps' =
                    [relay_steps EXCEPT ![pipeline_id] =
                        AdvancedSteps(@, pipeline, a)]
               /\ ret' = AdvanceResult(pipeline_id, pipeline, a)
               /\ advance_calls' =
                    [advance_calls EXCEPT ![pipeline_id] = Append(@, a)]
    /\ UNCHANGED memory_tables
    /\ UNCHANGED council_tables
    /\ UNCHANGED <<now, goals, tasks, circuit_breakers, callers>>

get_relay_baton(pipeline_id) ==
    /\ ret' = IF pipeline_id \notin PipelineIds(pipelines)
              THEN NotFound("get_relay_baton", pipeline_id)
              ELSE LET pipeline == pipelines[pipeline_id]
                   IN [op |-> "get_relay_baton",
                       pipeline_id |-> pipeline_id,
                       current_step |-> pipeline.current_step,
                       current_agent |->
                           IF pipeline.current_step < Len(pipeline.agent_types)
                           THEN pipeline.agent_types[pipeline.current_step + 1]
                           ELSE "None",
                       tokens_remaining |->
                           pipeline.token_budget - pipeline.tokens_used,
                       baton_data |-> pipeline.baton_data]
    /\ UNCHANGED memory_tables
    /\ UNCHANGED council_tables
    /\ UNCHANGED advance_calls
    /\ UNCHANGED goals
    /\ UNCHANGED <<now, tasks, pipelines, relay_steps, circuit_breakers,
                   callers>>

\* One entry per pipeline (the model's MaxPipelines is below the default
\* limit of 50), with the optional status filter.
list_relay_pipelines(status) ==
    /\ ret' = [op |-> "list_relay_pipelines",
               pipelines |->
                 {[id |-> id, status |-> pipelines[id].status,
                   current_step |-> pipelines[id].current_step,
                   total |-> Len(pipelines[id].agent_types),
                   tokens_used |-> pipelines[id].tokens_used] :
                  id \in {i \in PipelineIds(pipelines) :
                            status = "None" \/ pipelines[i].status = status}}]
    /\ UNCHANGED memory_tables
    /\ UNCHANGED council_tables
    /\ UNCHANGED advance_calls
    /\ UNCHANGED goals
    /\ UNCHANGED <<now, tasks, pipelines, relay_steps, circuit_breakers,
                   callers>>

\* ------------------------------------------------------ circuit breakers
\* INSERT INTO circuit_breakers (agent_id) VALUES (?): the column defaults.
NewBreaker ==
    [state |-> "closed", failure_count |-> 0, last_failure_at |-> NULL,
     last_success_at |-> NULL, opened_at |-> NULL,
     failure_threshold |-> DefaultFailureThreshold,
     window_seconds |-> DefaultWindowSeconds,
     cooldown_seconds |-> DefaultCooldownSeconds,
     fallback_agent |-> "generalist"]

HasBreaker(agent_id) == agent_id \in DOMAIN circuit_breakers

circuit_breaker_status(agent_id) ==
    /\ IF ~HasBreaker(agent_id)
       THEN /\ circuit_breakers' = circuit_breakers @@ (agent_id :> NewBreaker)
            /\ ret' = [op |-> "circuit_breaker_status", agent_id |-> agent_id,
                       state |-> "closed", failure_count |-> 0]
       ELSE LET cb == circuit_breakers[agent_id]
            IN /\ UNCHANGED circuit_breakers
               /\ ret' = [op |-> "circuit_breaker_status",
                          agent_id |-> agent_id, state |-> cb.state,
                          failure_count |-> cb.failure_count,
                          failure_threshold |-> cb.failure_threshold,
                          last_failure_at |-> cb.last_failure_at,
                          fallback_agent |-> cb.fallback_agent]
    /\ UNCHANGED memory_tables
    /\ UNCHANGED council_tables
    /\ UNCHANGED advance_calls
    /\ UNCHANGED goals
    /\ UNCHANGED <<now, tasks, pipelines, relay_steps, callers>>

\* new_state of circuit_breaker_record_failure:
\* `if new_count >= cb['failure_threshold']: new_state = 'open'`.
NewStateAbove(cb, new_count) ==
    IF new_count > cb.failure_threshold THEN "open" ELSE cb.state

NewState(cb, new_count) ==
    IF new_count >= cb.failure_threshold THEN "open" ELSE cb.state

circuit_breaker_record_failure(agent_id) ==
    LET cb == IF HasBreaker(agent_id) THEN circuit_breakers[agent_id]
              ELSE NewBreaker
        new_count == cb.failure_count + 1
        new_state == NewState(cb, new_count)
    IN /\ new_count <= MaxFailures
       /\ circuit_breakers' =
            (agent_id :> [cb EXCEPT !.failure_count = new_count,
                                    !.state = new_state,
                                    !.last_failure_at = now])
            @@ circuit_breakers
       /\ ret' = [op |-> "circuit_breaker_record_failure",
                  agent_id |-> agent_id, state |-> new_state,
                  failure_count |-> new_count,
                  tripped |-> (new_state = "open")]
       /\ UNCHANGED memory_tables
       /\ UNCHANGED council_tables
       /\ UNCHANGED advance_calls
       /\ UNCHANGED goals
       /\ UNCHANGED <<now, tasks, pipelines, relay_steps, callers>>

ResetRowKeepsCount(cb) ==
    [cb EXCEPT !.state = "closed", !.last_success_at = now]

\* SET state = 'closed', failure_count = 0,
\*     last_success_at = CURRENT_TIMESTAMP
ResetRow(cb) ==
    [cb EXCEPT !.state = "closed", !.failure_count = 0,
               !.last_success_at = now]

\* UPDATE circuit_breakers ... WHERE agent_id = ?: creates no row.
circuit_breaker_reset(agent_id) ==
    /\ circuit_breakers' =
         IF HasBreaker(agent_id)
         THEN [circuit_breakers EXCEPT ![agent_id] = ResetRow(@)]
         ELSE circuit_breakers
    /\ ret' = [op |-> "circuit_breaker_reset", agent_id |-> agent_id,
               state |-> "closed"]
    /\ UNCHANGED memory_tables
    /\ UNCHANGED council_tables
    /\ UNCHANGED advance_calls
    /\ UNCHANGED goals
    /\ UNCHANGED <<now, tasks, pipelines, relay_steps, callers>>

\* ------------------------------------- callers in separate server processes
InCall(c) == callers[c].pc \in {"marking", "advancing"}

\* get_next_task up to its UPDATE: the SELECTs, with no transaction open.  A
\* caller that finds no row returns None without writing.
get_next_task_select(c) ==
    /\ ~InCall(c)
    /\ \E rows \in QueryPending(tasks) :
         LET id == FirstDepsMet(tasks, rows)
         IN callers' = [callers EXCEPT ![c] =
                IF id = NoTask
                THEN [pc |-> "returned", op |-> "get_next_task",
                      task_id |-> NoTask]
                ELSE [pc |-> "marking", task_id |-> id]]
    /\ UNCHANGED memory_tables
    /\ UNCHANGED council_tables
    /\ UNCHANGED advance_calls
    /\ UNCHANGED goals
    /\ UNCHANGED <<now, tasks, pipelines, relay_steps, circuit_breakers, ret>>

\* get_next_task from its UPDATE to the return: the row the SELECT chose is
\* marked whatever its status has become.
get_next_task_mark(c) ==
    /\ callers[c].pc = "marking"
    /\ tasks' = MarkInProgress(tasks, callers[c].task_id)
    /\ ret' = [op |-> "get_next_task", task_id |-> callers[c].task_id]
    /\ callers' = [callers EXCEPT ![c] =
            [pc |-> "returned", op |-> "get_next_task",
             task_id |-> callers[c].task_id]]
    /\ UNCHANGED memory_tables
    /\ UNCHANGED council_tables
    /\ UNCHANGED advance_calls
    /\ UNCHANGED goals
    /\ UNCHANGED <<now, pipelines, relay_steps, circuit_breakers>>

\* advance_relay up to its first UPDATE: the SELECT of the pipeline row.
advance_relay_select(c, pipeline_id, a) ==
    /\ ~InCall(c)
    /\ pipeline_id \in PipelineIds(pipelines)
    /\ CanAdvance(pipelines[pipeline_id])
    /\ callers' = [callers EXCEPT ![c] =
            [pc |-> "advancing", pipeline_id |-> pipeline_id,
             pipeline |-> pipelines[pipeline_id], args |-> a]]
    /\ UNCHANGED memory_tables
    /\ UNCHANGED council_tables
    /\ UNCHANGED advance_calls
    /\ UNCHANGED goals
    /\ UNCHANGED <<now, tasks, pipelines, relay_steps, circuit_breakers, ret>>

\* advance_relay from its first UPDATE to the commit, computed from the row
\* as the caller read it.
advance_relay_commit(c) ==
    /\ callers[c].pc = "advancing"
    /\ LET pipeline_id == callers[c].pipeline_id
           pipeline == callers[c].pipeline
           a == callers[c].args
       IN /\ pipelines' =
               [pipelines EXCEPT ![pipeline_id] =
                   AdvancedPipeline(@, pipeline, a)]
          /\ relay_steps' =
               [relay_steps EXCEPT ![pipeline_id] =
                   AdvancedSteps(@, pipeline, a)]
          /\ ret' = AdvanceResult(pipeline_id, pipeline, a)
          /\ callers' = [callers EXCEPT ![c] =
                  [pc |-> "returned", op |-> "advance_relay",
                   pipeline_id |-> pipeline_id,
                   read_step |-> pipeline.current_step,
                   tokens_used |-> a.tokens_used,
                   result |-> AdvanceResult(pipeline_id, pipeline, a)]]
          /\ advance_calls' =
               [advance_calls EXCEPT ![pipeline_id] = Append(@, a)]
    /\ UNCHANGED memory_tables
    /\ UNCHANGED council_tables
    /\ UNCHANGED <<now, goals, tasks, circuit_breakers>>

\* ------------------------------------------------- memory store: floats
\* A Python float d >= 0 (an IEEE double) is the pair <<hi, lo>> with
\* d = (hi * Limb + lo) / 2^56 and lo < Limb; the literals below are the
\* doubles Python reads them as.
Limb == 268435456

Float_0_3 == <<80530636, 214748364>>
Float_0_5 == <<134217728, 0>>
Float_0_2 == <<53687091, 53687092>>
Float_0_1 == <<26843545, 161061274>>
Float_0_6 == <<161061273, 161061272>>
Float_0_7 == <<187904819, 53687088>>
Float_0_8 == <<214748364, 214748368>>
Float_1_0 == <<268435456, 0>>

\* The spacing, in units of 2^-56, of the doubles around a sum whose high
\* limb is hi (sums from 1/8 up to 2).
Quantum(hi) ==
    IF hi >= Limb THEN 16
    ELSE IF hi >= Limb \div 2 THEN 8
    ELSE IF hi >= Limb \div 4 THEN 4
    ELSE IF hi >= Limb \div 8 THEN 2
    ELSE 1

\* The exact value high * Limb + low rounded to the nearest double, ties to
\* the even one: the result of x + y and of n * x.
FloatRound(high, low) ==
    LET hi == high + low \div Limb
        lo == low % Limb
        q == Quantum(hi)
        r == lo % q
        up == 2 * r > q \/ (2 * r = q /\ (lo \div q) % 2 = 1)
        rounded == lo - r + (IF up THEN q ELSE 0)
    IN <<hi + rounded \div Limb, rounded % Limb>>

FloatAdd(x, y) == FloatRound(x[1] + y[1], x[2] + y[2])

\* n * x of an int n (up to 13) and a double x, rounded likewise.
FloatTimes(n, x) == FloatRound(n * x[1], n * x[2])

FloatGeq(x, y) == x[1] > y[1] \/ (x[1] = y[1] /\ x[2] >= y[2])

FloatMin(x, y) == IF FloatGeq(x, y) THEN y ELSE x

\* ------------------------------------------------ memory store: strings
\* A string is the sequence of its characters.
Lower(c) ==
    CASE c = "A" -> "a"
      [] c = "B" -> "b"
      [] OTHER -> c

ToLower(s) == [i \in DOMAIN s |-> Lower(s[i])]

\* `sub in s`
Contains(s, sub) ==
    \E i \in 0..(Len(s) - Len(sub)) : SubSeq(s, i + 1, i + Len(sub)) = sub

\* ' '.join(observations)
RECURSIVE Join(_)
Join(obs) ==
    IF obs = <<>> THEN <<>>
    ELSE IF Len(obs) = 1 THEN obs[1]
    ELSE obs[1] \o <<" ">> \o Join(Tail(obs))

Keywords ==
    {<<"e", "r", "r", "o", "r">>,
     <<"c", "r", "i", "t", "i", "c", "a", "l">>,
     <<"i", "m", "p", "o", "r", "t", "a", "n", "t">>,
     <<"b", "u", "g">>}

\* ----------------------------------------------- memory store: entities
\* The importance heuristic of create_entities.
Importance(name, obs) ==
    LET text == name \o <<" ">> \o Join(obs)
        keyword == IF \E kw \in Keywords : Contains(ToLower(text), kw)
                   THEN FloatAdd(Float_0_5, Float_0_2)
                   ELSE Float_0_5
        many == IF Len(obs) > 3
                THEN FloatAdd(keyword, Float_0_1)
                ELSE keyword
    IN FloatMin(Float_1_0, many)

Tier(importance) ==
    IF FloatGeq(importance, Float_0_8) THEN "semantic"
    ELSE IF FloatGeq(importance, Float_0_6) THEN "episodic"
    ELSE "working"

NameExistsNowhere(E, name) == FALSE

\* The UNIQUE constraint of entities.name: the INSERT raises IntegrityError.
NameExists(E, name) == \E id \in DOMAIN E : E[id].name = name

NewEntity(item) ==
    [name |-> item.name, entity_type |-> item.entityType,
     tier |-> Tier(Importance(item.name, item.observations)),
     importance_score |-> Importance(item.name, item.observations),
     access_count |-> 0]

NewObservations(entity_id, item) ==
    [i \in 1..Len(item.observations) |->
        [entity_id |-> entity_id, content |-> item.observations[i]]]

InitialVersionUnnumbered(entity_id, item) ==
    [entity_id |-> entity_id, version_number |-> 0,
     snapshot |-> [name |-> item.name, type |-> item.entityType,
                   observations |-> item.observations],
     commit_message |-> "Initial creation"]

\* The entity_versions row of a new entity; snapshot is the JSON object.
InitialVersion(entity_id, item) ==
    [entity_id |-> entity_id, version_number |-> 1,
     snapshot |-> [name |-> item.name, type |-> item.entityType,
                   observations |-> item.observations],
     commit_message |-> "Initial creation"]

\* f"Entity '{name}' already exists"
AlreadyExists(name) == [error |-> "already exists", name |-> name]

\* One pass of create_entities' loop over the store and the lists st.
CreateEntity(st, item) ==
    IF NameExists(st.entities, item.name)
    THEN [st EXCEPT !.errors = Append(@, AlreadyExists(item.name))]
    ELSE LET entity_id == Len(st.entities) + 1
         IN [entities |-> Append(st.entities, NewEntity(item)),
             observations |->
                 st.observations \o NewObservations(entity_id, item),
             entity_versions |->
                 Append(st.entity_versions, InitialVersion(entity_id, item)),
             created |->
                 Append(st.created,
                        [id |-> entity_id, name |-> item.name,
                         tier |-> NewEntity(item).tier,
                         importance |-> NewEntity(item).importance_score]),
             errors |-> st.errors]

RECURSIVE CreateAll(_, _)
CreateAll(st, batch) ==
    IF batch = <<>> THEN st
    ELSE CreateAll(CreateEntity(st, Head(batch)), Tail(batch))

create_entities(batch) ==
    LET st == CreateAll([entities |-> entities,
                         observations |-> observations,
                         entity_versions |-> entity_versions,
                         created |-> <<>>, errors |-> <<>>], batch)
    IN /\ entities' = st.entities
       /\ observations' = st.observations
       /\ entity_versions' = st.entity_versions
       /\ ret' = [op |-> "create_entities", created |-> Len(st.created),
                  errors |-> Len(st.errors), entities |-> st.created,
                  error_messages |-> st.errors]
       /\ UNCHANGED <<working_memory, episodic_memory, semantic_memory>>
       /\ UNCHANGED <<now, runtime_tables, council_tables>>

\* ------------------------------------------------- memory store: search
\* SQLite's LIKE: % stands for any characters, _ for any one character, and
\* letters match without regard to case.
RECURSIVE Like(_, _)
Like(pattern, s) ==
    IF pattern = <<>> THEN s = <<>>
    ELSE IF Head(pattern) = "%"
    THEN Like(Tail(pattern), s) \/ (s # <<>> /\ Like(pattern, Tail(s)))
    ELSE /\ s # <<>>
         /\ Head(pattern) = "_" \/ Lower(Head(pattern)) = Lower(Head(s))
         /\ Like(Tail(pattern), Tail(s))

\* search_term = f"%{query}%"
SearchTerm(query) == <<"%">> \o query \o <<"%">>

\* WHERE e.name LIKE ? OR o.content LIKE ?, over entities LEFT JOIN
\* observations.
Matching(query) ==
    {id \in DOMAIN entities :
        \/ Like(SearchTerm(query), entities[id].name)
        \/ \E o \in DOMAIN observations :
              /\ observations[o].entity_id = id
              /\ Like(SearchTerm(query), observations[o].content)}

\* ORDER BY e.importance_score DESC, e.access_count DESC: a sorts strictly
\* before b.
Outranks(a, b) ==
    \/ ~FloatGeq(b.importance_score, a.importance_score)
    \/ /\ a.importance_score = b.importance_score
       /\ a.access_count > b.access_count

\* The rows the SELECT may return: the first `limit` of the matching
\* entities in ORDER BY order, rows that tie in any order.
SearchRows(query, limit) ==
    LET found == Matching(query)
        n == IF Cardinality(found) < limit THEN Cardinality(found) ELSE limit
    IN {rows \in [1..n -> found] :
          /\ \A i, j \in 1..n : i < j => rows[i] # rows[j]
          /\ \A i, j \in 1..n :
                i < j => ~Outranks(entities[rows[j]], entities[rows[i]])
          /\ \A i \in 1..n :
                \A id \in found \ {rows[k] : k \in 1..n} :
                   ~Outranks(entities[id], entities[rows[i]])}

TouchAll(E, ids) ==
    [id \in DOMAIN E |-> [E[id] EXCEPT !.access_count = @ + 1]]

\* UPDATE entities SET access_count = access_count + 1 WHERE id = ?, for
\* every row of the result.
Touch(E, ids) ==
    [id \in DOMAIN E |->
        IF id \in ids THEN [E[id] EXCEPT !.access_count = @ + 1] ELSE E[id]]

SearchResult(id) ==
    [id |-> id, name |-> entities[id].name,
     entityType |-> entities[id].entity_type, tier |-> entities[id].tier,
     importance |-> entities[id].importance_score,
     observations |->
        LET rows == SelectSeq(observations, LAMBDA o : o.entity_id = id)
        IN [i \in DOMAIN rows |-> rows[i].content],
     accessCount |-> entities[id].access_count + 1]

\* The model stops counting the accesses of an entity at MaxAccess.
search_nodes(query, limit) ==
    \E rows \in SearchRows(query, limit) :
        /\ \A i \in DOMAIN rows : entities[rows[i]].access_count < MaxAccess
        /\ entities' = Touch(entities, {rows[i] : i \in DOMAIN rows})
        /\ ret' = [op |-> "search_nodes",
                   results |-> [i \in DOMAIN rows |-> SearchResult(rows[i])]]
        /\ UNCHANGED <<observations, entity_versions, working_memory,
                       episodic_memory, semantic_memory>>
        /\ UNCHANGED <<now, runtime_tables, council_tables>>

\* ----------------------------------------- memory store: working memory
\* working_memory is the sequence of the rows ever inserted, by id; a
\* deleted row leaves Purged behind (AUTOINCREMENT gives no id twice).
\* Timestamps are compared as the store compares them, in time order; the
\* columns content and entity_id are left out.
Purged == [purged |-> TRUE]

Stored(W) == {id \in DOMAIN W : W[id] # Purged}

ExpireNone(W) == W

\* DELETE FROM working_memory WHERE expires_at < now
Expire(W) ==
    [id \in DOMAIN W |->
        IF W[id] # Purged /\ W[id].expires_at < now THEN Purged ELSE W[id]]

add_to_working_memory(context_key, priority, ttl_minutes) ==
    /\ Len(working_memory) < MaxItems
    /\ working_memory' =
         Append(working_memory,
                [context_key |-> context_key, priority |-> priority,
                 ttl_minutes |-> ttl_minutes, created_at |-> now,
                 expires_at |-> now + ttl_minutes, access_count |-> 0])
    /\ ret' = [op |-> "add_to_working_memory",
               id |-> Len(working_memory) + 1, context_key |-> context_key,
               expires_at |-> now + ttl_minutes,
               ttl_minutes |-> ttl_minutes]
    /\ UNCHANGED <<entities, observations, entity_versions, episodic_memory,
                   semantic_memory>>
    /\ UNCHANGED <<now, runtime_tables, council_tables>>

\* No stored item has been accessed `most` times: the specifications stop
\* reading the working memory there.
AccessedBelow(most) ==
    \A id \in Stored(working_memory) :
        working_memory[id].access_count < most

\* ORDER BY priority DESC, created_at DESC: a sorts strictly before b.
NewerFirst(a, b) ==
    \/ a.priority > b.priority
    \/ a.priority = b.priority /\ a.created_at > b.created_at

\* The rows get_working_memory's SELECT may return from the table W: the
\* first `limit` in ORDER BY order of the rows under context_key, or of all
\* rows when no context_key is given.
WorkingRows(W, context_key, limit) ==
    LET found == {id \in Stored(W) :
                    context_key = "None" \/ W[id].context_key = context_key}
        n == IF Cardinality(found) < limit THEN Cardinality(found) ELSE limit
    IN {rows \in [1..n -> found] :
          /\ \A i, j \in 1..n : i < j => rows[i] # rows[j]
          /\ \A i, j \in 1..n : i < j => ~NewerFirst(W[rows[j]], W[rows[i]])
          /\ \A i \in 1..n :
                \A id \in found \ {rows[k] : k \in 1..n} :
                   ~NewerFirst(W[id], W[rows[i]])}

get_working_memory(context_key, limit) ==
    LET W == Expire(working_memory)
    IN \E rows \in WorkingRows(W, context_key, limit) :
          /\ working_memory' =
               [id \in DOMAIN W |->
                   IF id \in {rows[i] : i \in DOMAIN rows}
                   THEN [W[id] EXCEPT !.access_count = @ + 1]
                   ELSE W[id]]
          /\ ret' = [op |-> "get_working_memory",
                     results |->
                        [i \in DOMAIN rows |->
                            [id |-> rows[i],
                             context_key |-> W[rows[i]].context_key,
                             priority |-> W[rows[i]].priority,
                             expires_at |-> W[rows[i]].expires_at,
                             access_count |-> W[rows[i]].access_count + 1]]]
          /\ UNCHANGED <<entities, observations, entity_versions,
                         episodic_memory, semantic_memory>>
          /\ UNCHANGED <<now, runtime_tables, council_tables>>

\* ------------------------------- memory store: episodes and concepts
\* episodic_memory and semantic_memory are the sequences of the rows
\* inserted, by id; no handler deletes from them. The columns
\* emotional_valence, tags, entity_id and related_concepts are left out.
\* f"learned_{row['event_type']}_{row['id']}": the id is the digits after the
\* last underscore, so two names are equal only for the same event_type and
\* id; the name is kept as that pair.
ConceptName(event_type, id) == [learned |-> event_type, id |-> id]

\* The model stops adding episodes at MaxEpisodes.
add_episode(event_type, episode_data, significance_score) ==
    /\ Len(episodic_memory) < MaxEpisodes
    /\ episodic_memory' =
         Append(episodic_memory,
                [event_type |-> event_type, episode_data |-> episode_data,
                 significance_score |-> significance_score])
    /\ ret' = [op |-> "add_episode", id |-> Len(episodic_memory) + 1,
               event_type |-> event_type,
               significance |-> significance_score]
    /\ UNCHANGED <<entities, observations, entity_versions, working_memory,
                   semantic_memory>>
    /\ UNCHANGED <<now, runtime_tables, council_tables>>

\* The id of the concept of that name in S, 0 when there is none.
ConceptId(S, concept_name) ==
    IF \E c \in DOMAIN S : S[c].concept_name = concept_name
    THEN CHOOSE c \in DOMAIN S : S[c].concept_name = concept_name
    ELSE 0

add_concept(concept_name, concept_type, definition, confidence_score) ==
    LET id == ConceptId(semantic_memory, concept_name)
    IN /\ IF id = 0
          THEN /\ semantic_memory' =
                    Append(semantic_memory,
                           [concept_name |-> concept_name,
                            concept_type |-> concept_type,
                            definition |-> definition,
                            confidence_score |-> confidence_score])
               /\ ret' = [op |-> "add_concept",
                          id |-> Len(semantic_memory) + 1,
                          concept_name |-> concept_name,
                          action |-> "created",
                          confidence |-> confidence_score]
          ELSE /\ semantic_memory' =
                    [semantic_memory EXCEPT
                        ![id].definition = definition,
                        ![id].confidence_score = confidence_score]
               /\ ret' = [op |-> "add_concept", id |-> id,
                          concept_name |-> concept_name,
                          action |-> "updated",
                          confidence |-> confidence_score]
       /\ UNCHANGED <<entities, observations, entity_versions,
                      working_memory, episodic_memory>>
       /\ UNCHANGED <<now, runtime_tables, council_tables>>

\* ------------------------------------------------ memory store: curation
\* The episodic_memory row of a working item with access_count >= 5.
\* The significance without its cap of 0.7.
PromotedUncapped(row) ==
    [event_type |-> "promoted_from_working",
     episode_data |-> [context |-> row.context_key],
     significance_score |->
        FloatAdd(Float_0_3, FloatTimes(row.access_count, Float_0_1))]

Promoted(row) ==
    [event_type |-> "promoted_from_working",
     episode_data |-> [context |-> row.context_key],
     significance_score |->
        FloatMin(Float_0_7,
                 FloatAdd(Float_0_3, FloatTimes(row.access_count, Float_0_1)))]

RECURSIVE PromotedRowsAbove(_, _)
PromotedRowsAbove(W, id) ==
    IF id > Len(W) THEN <<>>
    ELSE IF W[id] # Purged /\ W[id].access_count > PromotionThreshold
    THEN <<Promoted(W[id])>> \o PromotedRowsAbove(W, id + 1)
    ELSE PromotedRowsAbove(W, id + 1)

\* The rows of the items of W to promote, in id order.
RECURSIVE PromotedRows(_, _)
PromotedRows(W, id) ==
    IF id > Len(W) THEN <<>>
    ELSE IF W[id] # Purged /\ W[id].access_count >= PromotionThreshold
    THEN <<Promoted(W[id])>> \o PromotedRows(W, id + 1)
    ELSE PromotedRows(W, id + 1)

\* The loop as it would run if a duplicate name ended it.
RECURSIVE LearnUntilDuplicate(_, _, _, _)
LearnUntilDuplicate(Ep, id, S, n) ==
    IF id > Len(Ep) THEN [semantic_memory |-> S, episodic_to_semantic |-> n]
    ELSE IF ~FloatGeq(Ep[id].significance_score, Float_0_8)
    THEN LearnUntilDuplicate(Ep, id + 1, S, n)
    ELSE IF ConceptId(S, ConceptName(Ep[id].event_type, id)) # 0
    THEN [semantic_memory |-> S, episodic_to_semantic |-> n]
    ELSE LearnUntilDuplicate(Ep, id + 1,
               Append(S, [concept_name |->
                             ConceptName(Ep[id].event_type, id),
                          concept_type |-> "derived_pattern",
                          definition |-> Ep[id].episode_data,
                          confidence_score |-> Ep[id].significance_score]),
               n + 1)

\* The loop over the episodes of significance >= 0.8, from episode id on:
\* S is the semantic_memory table, n the count of concepts inserted.
RECURSIVE Learn(_, _, _, _)
Learn(Ep, id, S, n) ==
    IF id > Len(Ep) THEN [semantic_memory |-> S, episodic_to_semantic |-> n]
    ELSE IF ~FloatGeq(Ep[id].significance_score, Float_0_8)
    THEN Learn(Ep, id + 1, S, n)
    ELSE IF \E c \in DOMAIN S :
               S[c].concept_name = ConceptName(Ep[id].event_type, id)
    THEN Learn(Ep, id + 1, S, n)
    ELSE Learn(Ep, id + 1,
               Append(S, [concept_name |->
                             ConceptName(Ep[id].event_type, id),
                          concept_type |-> "derived_pattern",
                          definition |-> Ep[id].episode_data,
                          confidence_score |-> Ep[id].significance_score]),
               n + 1)

\* The model stops adding episodes at MaxEpisodes.
autonomous_memory_curation ==
    LET W == Expire(working_memory)
        episodes == episodic_memory \o PromotedRows(W, 1)
        learned == Learn(episodes, 1, semantic_memory, 0)
    IN /\ Len(episodes) <= MaxEpisodes
       /\ working_memory' = W
       /\ episodic_memory' = episodes
       /\ semantic_memory' = learned.semantic_memory
       /\ ret' = [op |-> "autonomous_memory_curation",
                  status |-> "completed",
                  promotions |->
                     [working_to_episodic |-> Len(PromotedRows(W, 1)),
                      episodic_to_semantic |-> learned.episodic_to_semantic,
                      expired_cleaned |->
                         Cardinality(Stored(working_memory) \ Stored(W))]]
       /\ UNCHANGED <<entities, observations, entity_versions>>
       /\ UNCHANGED <<now, runtime_tables, council_tables>>

\* ---------------------------------------------- memory store: versioning
\* The entity_versions rows of an entity.
VersionsOf(entity_id) ==
    {v \in DOMAIN entity_versions :
        entity_versions[v].entity_id = entity_id}

\* versions[k] of ORDER BY version_number DESC, for k = 0 and k = 1, among
\* the rows V (version numbers of one entity do not repeat).
NthLatest(V, k) ==
    CHOOSE v \in V :
        Cardinality({w \in V : entity_versions[w].version_number
                                  > entity_versions[v].version_number}) = k

\* [o for o in a if o not in b]
NotIn(a, b) == SelectSeq(a, LAMBDA o : \A i \in DOMAIN b : b[i] # o)

\* The snapshot of the version of that number among V, NULL without one.
SnapshotOf(V, version) ==
    IF \E v \in V : entity_versions[v].version_number = version
    THEN entity_versions[
            CHOOSE v \in V : entity_versions[v].version_number = version
         ].snapshot
    ELSE NULL

memory_diff(entity_name, version1, version2) ==
    /\ IF ~NameExists(entities, entity_name)
       THEN ret' = [op |-> "memory_diff", error |-> "not found",
                    name |-> entity_name]
       ELSE LET entity_id ==
                   CHOOSE id \in DOMAIN entities :
                      entities[id].name = entity_name
                V == VersionsOf(entity_id)
            IN IF Cardinality(V) < 2
               THEN ret' = [op |-> "memory_diff",
                            error |-> "Not enough versions for diff"]
               ELSE LET n1 == IF version1 = NULL
                              THEN entity_versions[NthLatest(V, 1)]
                                      .version_number
                              ELSE version1
                        n2 == IF version2 = NULL
                              THEN entity_versions[NthLatest(V, 0)]
                                      .version_number
                              ELSE version2
                        v1_data == SnapshotOf(V, n1)
                        v2_data == SnapshotOf(V, n2)
                    IN IF v1_data = NULL \/ v2_data = NULL
                       THEN ret' = [op |-> "memory_diff",
                                    error |-> "Version not found"]
                       ELSE ret' =
                              [op |-> "memory_diff",
                               entity |-> entity_name,
                               version1 |-> n1, version2 |-> n2,
                               v1 |-> v1_data, v2 |-> v2_data,
                               changes |->
                                 [added_observations |->
                                     NotIn(v2_data.observations,
                                           v1_data.observations),
                                  removed_observations |->
                                     NotIn(v1_data.observations,
                                           v2_data.observations)]]
    /\ UNCHANGED memory_tables
    /\ UNCHANGED <<now, runtime_tables, council_tables>>

\* ------------------------------------------------- deliberation council
\* cli_providers.py and config.py: the providers and the default council.
PROVIDERS == {"claude", "codex", "gemini"}
CLI_COUNCIL_MODELS == <<"claude", "codex", "gemini">>
CLI_CHAIRMAN_MODEL == "codex"

\* string.ascii_uppercase, as far as three responses need it; the label
\* "Response X" is kept as its letter X.
Letters == <<"A", "B", "C">>

None == [none |-> TRUE]

\* What a provider can print: an answer to the question, an evaluation of
\* the responses, a synthesis, or nothing.
Answer(provider) == [answer |-> provider]
Evaluation(final_ranking, mentions) ==
    [final_ranking |-> final_ranking, mentions |-> mentions]
Evaluations ==
    {Evaluation(<<"B", "A", "C">>, <<"B", "A", "C">>),
     Evaluation(<<"A", "B", "C">>, <<"A", "B", "C">>),
     Evaluation(<<>>, <<>>)}
Synthesis == [synthesis |-> "final answer"]
EmptyText == [empty |-> TRUE]

Stdout(stage, provider) ==
    CASE stage = 2 -> Evaluations
      [] stage = 3 -> {Synthesis}
      [] OTHER -> {Answer(provider), EmptyText}

\* result.get("content"): neither None nor the empty string.
Truthy(content) == content # None /\ content # EmptyText

\* The ways query_cli_provider ends once its subprocess runs, with the state
\* its subprocess is then in: wait_for's timeout cancels communicate() and
\* nothing ends the subprocess.
Outcomes(stage, provider) ==
    {[result |-> [content |-> text, error |-> "None"], process |-> "exited"] :
        text \in Stdout(stage, provider)}
    \cup {[result |-> [content |-> None, error |-> "exit code"],
           process |-> "exited"],
          [result |-> [content |-> None, error |-> "decode"],
           process |-> "exited"],
          [result |-> [content |-> None, error |-> "Timeout"],
           process |-> "running"]}

\* tasks = [query_cli_provider(provider, prompt, timeout) for provider in
\* providers], all started by gather.
FanOut(stage, providers) ==
    [i \in 1..Len(providers) |->
        [stage |-> stage, provider |-> providers[i], state |-> "running",
         result |-> [content |-> None, error |-> "None"],
         process |-> "running"]]

QueriesOf(stage) == {q \in DOMAIN queries : queries[q].stage = stage}

query_cli_provider(q) ==
    /\ queries[q].state = "running"
    /\ \E outcome \in Outcomes(queries[q].stage, queries[q].provider) :
          queries' = [queries EXCEPT ![q].state = "returned",
                                     ![q].result = outcome.result,
                                     ![q].process = outcome.process]
    /\ UNCHANGED <<council, conversations, ret>>
    /\ UNCHANGED <<now, runtime_tables, memory_tables>>

\* The subprocess of a query that timed out ends by itself.
ProcessExits(q) ==
    /\ queries[q].state = "returned"
    /\ queries[q].process = "running"
    /\ queries' = [queries EXCEPT ![q].process = "exited"]
    /\ UNCHANGED <<council, conversations, ret>>
    /\ UNCHANGED <<now, runtime_tables, memory_tables>>

GatheredAny(stage) ==
    \E q \in QueriesOf(stage) : queries[q].state = "returned"

\* await asyncio.gather(*tasks, return_exceptions=True) has returned.
Gathered(stage) ==
    \A q \in QueriesOf(stage) : queries[q].state = "returned"

\* query_providers_parallel's output, a dict in the order of `providers`.
Output(stage) ==
    LET Q == SelectSeq(queries, LAMBDA query : query.stage = stage)
    IN [i \in DOMAIN Q |->
           [provider |-> Q[i].provider, result |-> Q[i].result]]

\* stage1_collect_responses: the responses with content, in that order.
Responses(output) ==
    LET kept == SelectSeq(output, LAMBDA o : Truthy(o.result.content))
    IN [i \in DOMAIN kept |->
           [model |-> kept[i].provider, content |-> kept[i].result.content]]

\* _create_label_mapping: label -> model, in the order of the responses.
LabelMapping(responses) ==
    [i \in DOMAIN responses |->
        [label |-> Letters[i], model |-> responses[i].model]]

\* The labels of a sequence, each once, in the order of first appearance.
RECURSIVE Unique(_)
Unique(labels) ==
    IF labels = <<>> THEN <<>>
    ELSE LET front == Unique(SubSeq(labels, 1, Len(labels) - 1))
             last == labels[Len(labels)]
         IN IF \E i \in DOMAIN front : front[i] = last
            THEN front ELSE Append(front, last)

\* The FINAL RANKING section's labels as they stand, else the mentions.
parse_ranking_from_text(text) ==
    IF text.final_ranking # <<>> THEN text.final_ranking
    ELSE Unique(text.mentions)

\* stage2_collect_rankings: one ranking per evaluator with content.
Rankings(output) ==
    LET kept == SelectSeq(output, LAMBDA o : Truthy(o.result.content))
    IN [i \in DOMAIN kept |->
           [evaluator |-> kept[i].provider,
            raw_evaluation |-> kept[i].result.content,
            parsed_ranking |->
               parse_ranking_from_text(kept[i].result.content)]]

\* rank_positions[label]: the positions of the label, ranking by ranking.
RECURSIVE RankPositions(_, _)
RankPositions(rankings, label) ==
    IF rankings = <<>> THEN <<>>
    ELSE LET parsed == rankings[1].parsed_ranking
             here == SelectSeq([p \in DOMAIN parsed |-> p],
                               LAMBDA p : parsed[p] = label)
         IN here \o RankPositions(Tail(rankings), label)

RECURSIVE Sum(_)
Sum(positions) ==
    IF positions = <<>> THEN 0 ELSE positions[1] + Sum(Tail(positions))

\* round(sum(positions) / len(positions), 2), in hundredths (no mean of
\* fewer than five positions lies halfway between two hundredths).
AverageRank(positions) ==
    (200 * Sum(positions) + Len(positions)) \div (2 * Len(positions))

\* results.sort(key=...): the entries by ascending key, entries of equal
\* key in the order they had.
SortedByRank(results) ==
    LET Before(i) ==
           {j \in DOMAIN results :
              \/ results[j].average_rank < results[i].average_rank
              \/ /\ results[j].average_rank = results[i].average_rank
                 /\ j < i}
    IN [k \in DOMAIN results |->
           results[CHOOSE i \in DOMAIN results :
                      Cardinality(Before(i)) = k - 1]]

\* The aggregate with the labels no ranking names put last.
AggregateWithUnrankedLast(rankings, label_to_model) ==
    LET results ==
           [i \in DOMAIN label_to_model |->
               LET positions ==
                      RankPositions(rankings, label_to_model[i].label)
               IN [model |-> label_to_model[i].model,
                   label |-> label_to_model[i].label,
                   average_rank |->
                      IF positions = <<>>
                      THEN 100 * (Len(label_to_model) + 1)
                      ELSE AverageRank(positions),
                   vote_count |-> Len(positions),
                   positions |-> positions]]
    IN SortedByRank(results)

calculate_aggregate_rankings(rankings, label_to_model) ==
    LET voted == SelectSeq(label_to_model,
                           LAMBDA e : RankPositions(rankings, e.label) # <<>>)
        results ==
           [i \in DOMAIN voted |->
               LET positions == RankPositions(rankings, voted[i].label)
               IN [model |-> voted[i].model, label |-> voted[i].label,
                   average_rank |-> AverageRank(positions),
                   vote_count |-> Len(positions),
                   positions |-> positions]]
    IN SortedByRank(results)

Fallback(response) ==
    [prefix |-> "[Chairman synthesis failed. Top-ranked response:]",
     response |-> response]
SynthesisFailed ==
    [text |-> "[Synthesis failed. No valid responses available.]"]

\* The content of the response of a model.
ResponseOf(responses, model) ==
    responses[CHOOSE i \in DOMAIN responses : responses[i].model = model]
       .content

\* stage3_synthesize_final, from the chairman's result on.
FinalAnswer(result, responses, aggregate_rankings) ==
    IF Truthy(result.content) THEN result.content
    ELSE IF /\ aggregate_rankings # <<>>
            /\ \E i \in DOMAIN responses :
                  responses[i].model = aggregate_rankings[1].model
    THEN Fallback(ResponseOf(responses, aggregate_rankings[1].model))
    ELSE SynthesisFailed

\* ranked_responses: a heading and the response of every model of the
\* aggregate that has a response, in the order of the aggregate.
RankedResponses(responses, aggregate_rankings) ==
    LET known == SelectSeq(aggregate_rankings,
                           LAMBDA r : \E i \in DOMAIN responses :
                                         responses[i].model = r.model)
    IN [k \in DOMAIN known |->
           [model |-> known[k].model, average_rank |-> known[k].average_rank,
            response |-> ResponseOf(responses, known[k].model)]]

\* synthesis_prompt: what the f-string puts between its fixed lines.
SynthesisPrompt(question, responses, aggregate_rankings) ==
    [question |-> question,
     ranked_responses |-> RankedResponses(responses, aggregate_rankings),
     aggregate_rankings |->
        [k \in DOMAIN aggregate_rankings |->
            [model |-> aggregate_rankings[k].model,
             average_rank |-> aggregate_rankings[k].average_rank]]]

\* run_full_council from the outputs of Stage 1 and Stage 2 to the prompt
\* stage3_synthesize_final sends to the chairman.
synthesis_prompt(question, stage1, stage2) ==
    /\ LET responses == Responses(stage1)
           rankings == Rankings(stage2)
           label_to_model == LabelMapping(responses)
           aggregate ==
              calculate_aggregate_rankings(rankings, label_to_model)
       IN ret' = [op |-> "synthesis_prompt",
                  responses |-> responses, rankings |-> rankings,
                  label_to_model |-> label_to_model,
                  aggregate_rankings |-> aggregate,
                  prompt |-> SynthesisPrompt(question, responses, aggregate)]
    /\ UNCHANGED council_tables
    /\ UNCHANGED <<now, runtime_tables, memory_tables>>

\* datetime.now().strftime("%Y%m%d_%H%M%S"): the clock reading cut to its
\* second; the clock is read in steps of 1/ClockResolution second.
ConversationId(time) == time \div ClockResolution

\* conv_file.write_text(...): the file of that id, created or replaced.
WriteText(files, conv_id, conversation) ==
    [id \in DOMAIN files \cup {conv_id} |->
        IF id = conv_id THEN conversation ELSE files[id]]

Conversation(question, result) ==
    [id |-> ConversationId(now), created_at |-> now,
     question |-> question, result |-> result]

save_conversation(question, result) ==
    /\ conversations' =
          WriteText(conversations, ConversationId(now),
                    Conversation(question, result))
    /\ ret' = [op |-> "save_conversation",
               conversation_id |-> ConversationId(now)]
    /\ UNCHANGED <<council, queries>>
    /\ UNCHANGED <<now, runtime_tables, memory_tables>>

\* council_deliberate up to the first await: Stage 1 is fanned out.
council_deliberate(question, save) ==
    /\ council.pc = "idle"
    /\ IF question = ""
       THEN /\ ret' = [op |-> "council_deliberate",
                       error |-> "No question provided"]
            /\ UNCHANGED <<council, queries>>
       ELSE /\ council' = [pc |-> "stage1", question |-> question,
                           save |-> save]
            /\ queries' = queries \o FanOut(1, CLI_COUNCIL_MODELS)
            /\ UNCHANGED ret
    /\ UNCHANGED conversations
    /\ UNCHANGED <<now, runtime_tables, memory_tables>>

SomeMissing(responses) == Len(responses) < Len(CLI_COUNCIL_MODELS)

\* if not responses
NoResponses(responses) == responses = <<>>

\* From the return of Stage 1's gather to the next await: the run fails
\* without responses, else Stage 2 is fanned out to the same models.
Stage1Gathered ==
    /\ council.pc = "stage1"
    /\ Gathered(1)
    /\ IF NoResponses(Responses(Output(1)))
       THEN /\ ret' = [op |-> "council_deliberate",
                       result |->
                          [success |-> FALSE,
                           error |-> "No responses collected in Stage 1",
                           stage1 |-> <<>>,
                           stage2 |-> [rankings |-> <<>>,
                                       label_to_model |-> <<>>],
                           stage3 |-> None],
                       conversation_id |-> None]
            /\ council' = [council EXCEPT !.pc = "done"]
            /\ UNCHANGED queries
       ELSE /\ queries' = queries \o FanOut(2, CLI_COUNCIL_MODELS)
            /\ council' = [council EXCEPT !.pc = "stage2"]
            /\ UNCHANGED ret
    /\ UNCHANGED conversations
    /\ UNCHANGED <<now, runtime_tables, memory_tables>>

\* From the return of Stage 2's gather to the chairman's query.
Stage2Gathered ==
    /\ council.pc = "stage2"
    /\ Gathered(2)
    /\ queries' = queries \o FanOut(3, <<CLI_CHAIRMAN_MODEL>>)
    /\ council' = [council EXCEPT !.pc = "stage3"]
    /\ UNCHANGED <<conversations, ret>>
    /\ UNCHANGED <<now, runtime_tables, memory_tables>>

\* From the chairman's result to the handler's return: the run's result,
\* saved when asked (the conversation_id is added after the file is
\* written).
Stage3Returned ==
    /\ council.pc = "stage3"
    /\ Gathered(3)
    /\ LET responses == Responses(Output(1))
           rankings == Rankings(Output(2))
           label_to_model == LabelMapping(responses)
           aggregate ==
              calculate_aggregate_rankings(rankings, label_to_model)
           result ==
              [success |-> TRUE,
               stage1 |-> responses,
               stage2 |-> [rankings |-> rankings,
                           label_to_model |-> label_to_model,
                           aggregate_rankings |-> aggregate],
               stage3 |-> FinalAnswer(Output(3)[1].result, responses,
                                      aggregate)]
       IN IF council.save
          THEN /\ conversations' =
                    WriteText(conversations, ConversationId(now),
                              Conversation(council.question, result))
               /\ ret' = [op |-> "council_deliberate", result |-> result,
                          conversation_id |-> ConversationId(now)]
          ELSE /\ ret' = [op |-> "council_deliberate", result |-> result,
                          conversation_id |-> None]
               /\ UNCHANGED conversations
    /\ council' = [council EXCEPT !.pc = "done"]
    /\ UNCHANGED queries
    /\ UNCHANGED <<now, runtime_tables, memory_tables>>

\* council_compare_providers up to its await: the installed providers, in
\* the order of PROVIDERS, are fanned out.
council_compare_providers(prompt, available) ==
    /\ council.pc = "idle"
    /\ IF prompt = ""
       THEN /\ ret' = [op |-> "council_compare_providers",
                       error |-> "No prompt provided"]
            /\ UNCHANGED <<council, queries>>
       ELSE /\ council' = [pc |-> "compare", available |-> available]
            /\ queries' = queries \o FanOut(0, available)
            /\ UNCHANGED ret
    /\ UNCHANGED conversations
    /\ UNCHANGED <<now, runtime_tables, memory_tables>>

CompareGathered ==
    /\ council.pc = "compare"
    /\ Gathered(0)
    /\ ret' = [op |-> "council_compare_providers",
               providers_queried |-> council.available,
               results |->
                  [i \in DOMAIN Output(0) |->
                      [provider |-> Output(0)[i].provider,
                       response |-> Output(0)[i].result.content,
                       error |-> Output(0)[i].result.error]]]
    /\ council' = [council EXCEPT !.pc = "done"]
    /\ UNCHANGED <<queries, conversations>>
    /\ UNCHANGED <<now, runtime_tables, memory_tables>>

\* ------------------------------------------------- council: round robin
\* dict.get(key, default): the default only when the key is missing.
Get(result, key, default) ==
    IF key \in DOMAIN result THEN result[key] ELSE default

\* The prompt of a round robin call: the question, and the answer to refine
\* `if current_answer`.
RefinePrompt(question, current_answer) ==
    IF Truthy(current_answer)
    THEN [question |-> question, previous_answer |-> current_answer,
          ask |-> "Refine and improve this answer."]
    ELSE [question |-> question, ask |-> "Provide an initial answer."]

\* await query_cli_provider(model, prompt): one query, started.
Ask(stage, provider, prompt) ==
    [stage |-> stage, provider |-> provider, state |-> "running",
     result |-> [content |-> None, error |-> "None"], process |-> "running",
     prompt |-> prompt]

RoundRobinResult(question, rounds, stages, current_answer) ==
    [op |-> "council_run_pattern", pattern |-> "round_robin",
     question |-> question, rounds |-> rounds, stages |-> stages,
     final_answer |-> current_answer]

\* council_run_pattern with pattern round_robin, up to the first await of
\* _run_round_robin; run_pattern is given no models and takes
\* CLI_COUNCIL_MODELS.  Stage 4 stands for the calls of the pattern.
council_run_pattern(question, rounds) ==
    /\ council.pc = "idle"
    /\ IF question = ""
       THEN /\ ret' = [op |-> "council_run_pattern",
                       error |-> "No question provided"]
            /\ UNCHANGED <<council, queries>>
       ELSE IF rounds = 0
       THEN /\ ret' = RoundRobinResult(question, rounds, <<>>, EmptyText)
            /\ council' = [pc |-> "done"]
            /\ UNCHANGED queries
       ELSE /\ council' = [pc |-> "round_robin", question |-> question,
                           rounds |-> rounds, round_num |-> 0, model |-> 1,
                           stages |-> <<>>]
            /\ queries' =
                  Append(queries,
                         Ask(4, CLI_COUNCIL_MODELS[1],
                             RefinePrompt(question, EmptyText)))
            /\ UNCHANGED ret
    /\ UNCHANGED conversations
    /\ UNCHANGED <<now, runtime_tables, memory_tables>>

\* From the return of a call to the next await, or to the return of the
\* handler after the last call of the last round.
RoundRobinAnswered ==
    /\ council.pc = "round_robin"
    /\ queries[Len(queries)].state = "returned"
    /\ LET result == queries[Len(queries)].result
           before == IF council.stages = <<>> THEN EmptyText
                     ELSE council.stages[Len(council.stages)].response
           current_answer == Get(result, "content", before)
           stages == Append(council.stages,
                            [round |-> council.round_num + 1,
                             model |-> CLI_COUNCIL_MODELS[council.model],
                             response |-> current_answer])
           last_model == council.model = Len(CLI_COUNCIL_MODELS)
       IN IF last_model /\ council.round_num + 1 = council.rounds
          THEN /\ ret' = RoundRobinResult(council.question, council.rounds,
                                          stages, current_answer)
               /\ council' = [pc |-> "done"]
               /\ UNCHANGED queries
          ELSE /\ council' =
                     [council EXCEPT
                        !.stages = stages,
                        !.model = IF last_model THEN 1 ELSE @ + 1,
                        !.round_num = IF last_model THEN @ + 1 ELSE @]
               /\ queries' =
                     Append(queries,
                            Ask(4,
                                CLI_COUNCIL_MODELS[IF last_model THEN 1
                                                   ELSE council.model + 1],
                                RefinePrompt(council.question,
                                             current_answer)))
               /\ UNCHANGED ret
    /\ UNCHANGED conversations
    /\ UNCHANGED <<now, runtime_tables, memory_tables>>

\* The council server at its start: no handler running, no file saved.
EmptyCouncil ==
    /\ council = [pc |-> "idle"]
    /\ queries = <<>>
    /\ conversations = <<>>

\* ------------------------------------------------------------ embeddings
\* The embedding server in local mode without sentence-transformers:
\* get_embedding_model returns None.  hashlib.sha512(text.encode()).digest()
\* is tabulated for the texts of the model, byte by byte.
sha512(text) ==
    CASE text = "" ->
           <<207, 131, 225, 53, 126, 239, 184, 189, 241, 84, 40, 80, 214, 109,
             128, 7, 214, 32, 228, 5, 11, 87, 21, 220, 131, 244, 169, 33, 211,
             108, 233, 206, 71, 208, 209, 60, 93, 133, 242, 176, 255, 131, 24,
             210, 135, 126, 236, 47, 99, 185, 49, 189, 71, 65, 122, 129, 165,
             56, 50, 122, 249, 39, 218, 62>>
      [] text = "a" ->
           <<31, 64, 252, 146, 218, 36, 22, 148, 117, 9, 121, 238, 108, 245,
             130, 242, 213, 215, 210, 142, 24, 51, 93, 224, 90, 188, 84, 208,
             86, 14, 15, 83, 2, 134, 12, 101, 43, 240, 141, 86, 2, 82, 170, 94,
             116, 33, 5, 70, 243, 105, 251, 187, 206, 140, 18, 207, 199, 149,
             123, 38, 82, 254, 154, 117>>
      [] text = "b" ->
           <<82, 103, 118, 136, 34, 238, 98, 77, 72, 252, 225, 94, 197, 202,
             121, 203, 214, 2, 203, 127, 76, 33, 87, 165, 22, 85, 105, 145,
             242, 46, 248, 199, 181, 239, 123, 24, 209, 255, 65, 197, 147, 112,
             239, 176, 133, 134, 81, 212, 74, 147, 108, 17, 183, 177, 68, 196,
             143, 224, 77, 243, 198, 163, 232, 218>>

\* float(b) / 255.0, kept as the quotient it rounds.
ByteOver255(b) == [byte |-> b, over |-> 255]

\* s[:n]
Prefix(s, n) == SubSeq(s, 1, IF n < Len(s) THEN n ELSE Len(s))

generate_local_embeddings(texts) ==
    [i \in DOMAIN texts |->
        LET hash_bytes == Prefix(sha512(texts[i]), EmbeddingSize)
        IN [k \in DOMAIN hash_bytes |-> ByteOver255(hash_bytes[k])]]

\* The generate_embeddings tool; ret keeps the texts of the call beside the
\* result.
generate_embeddings(texts) ==
    /\ ret' = IF texts = <<>>
              THEN [op |-> "generate_embeddings", texts |-> texts,
                    error |-> "No texts provided"]
              ELSE LET embeddings == generate_local_embeddings(texts)
                   IN [op |-> "generate_embeddings", texts |-> texts,
                       success |-> TRUE, embeddings |-> embeddings,
                       count |-> Len(embeddings),
                       dimensions |-> Len(embeddings[1]),
                       mode |-> "local"]
    /\ UNCHANGED now
    /\ UNCHANGED runtime_tables
    /\ UNCHANGED memory_tables
    /\ UNCHANGED council_tables

\* init_database of the memory server: empty tables.
EmptyMemory ==
    /\ entities = <<>>
    /\ observations = <<>>
    /\ entity_versions = <<>>
    /\ working_memory = <<>>
    /\ episodic_memory = <<>>
    /\ semantic_memory = <<>>

\* --------------------------------------------------------- specifications
\* init_database: empty tables.
Init ==
    /\ now = 1
    /\ goals = <<>>
    /\ tasks = <<>>
    /\ pipelines = <<>>
    /\ relay_steps = <<>>
    /\ circuit_breakers = <<>>
    /\ advance_calls = <<>>
    /\ EmptyMemory
    /\ EmptyCouncil
    /\ ret = [op |-> "init"]
    /\ callers = [c \in Callers |-> Idle]

TaskNext ==
    \/ \E p \in Priorities, d \in DepLists : create_task(p, d)
    \/ get_next_task
    \/ \E t \in 1..MaxTasks, s \in TaskStatus : update_task_status(t, s)

\* The task queue within one second of the store's clock.
TaskSpec == Init /\ [][TaskNext]_vars

GoalNames == {"g", "h"}
Strategies == {"sequential", "parallel", "hierarchical", "sideways"}

GoalNext ==
    \/ \E name \in GoalNames, description \in {"", "d"} :
          create_goal(name, description)
    \/ \E g \in 1..(MaxGoals + 1) : get_goal(g)
    \/ \E g \in 1..(MaxGoals + 1), strategy \in Strategies :
          decompose_goal(g, strategy)
    \/ \E t \in 1..(MaxTasks + 1) : get_task(t)

\* Goals and their decomposition into tasks.
GoalSpec == Init /\ [][GoalNext]_vars

Texts == {"", "a", "b"}
TextLists == UNION {[1..n -> Texts] : n \in 0..MaxTexts}

EmbedNext == \E texts \in TextLists : generate_embeddings(texts)

\* The embedding tool called with lists of texts.
EmbedSpec == Init /\ [][EmbedNext]_vars

\* Dependency lists that name stored tasks only: what is created this way
\* has no dependency cycle.
StoredDeps == {d \in DepLists : \A k \in DOMAIN d : d[k] \in DOMAIN tasks}

WorkerNext ==
    \/ \E p \in Priorities, d \in StoredDeps : create_task(p, d)
    \/ create_goal("g", "d")
    \/ \E strategy \in {"sequential", "parallel"} :
          /\ Len(tasks) < MaxTasks - 1
          /\ decompose_goal(1, strategy)
    \/ \E c \in Callers : worker_get_next_task(c)
    \/ \E c \in Callers : worker_update_task_status(c)

\* Workers on a store that tasks are added to, by hand and by decomposition.
WorkerSpec == Init /\ [][WorkerNext]_vars

\* A worker that can make a call makes it: no worker stops for ever between
\* its calls.
WorkerFairSpec ==
    /\ WorkerSpec
    /\ \A c \in Callers :
          /\ WF_vars(worker_get_next_task(c))
          /\ WF_vars(worker_update_task_status(c))

\* The task queue with the clock running.
TaskClockSpec == Init /\ [][TaskNext \/ Tick]_vars

\* Rows the tasks table can hold: ids in creation order, so created_at never
\* decreases with the id; any status (update_task_status sets any status and
\* never started_at).
StoredTasks ==
    {T \in UNION {[1..n -> [title : {<<"task">>}, goal_id : {NULL},
                            status : TaskStatus, priority : Priorities,
                            dependencies : DepLists,
                            created_at : 1..MaxTime, started_at : {NULL}]] :
                  n \in 0..MaxTasks} :
        \A i, j \in DOMAIN T : i < j => T[i].created_at <= T[j].created_at}

QueueInit ==
    /\ goals = <<>>
    /\ tasks \in StoredTasks
    /\ now = MaxTime
    /\ pipelines = <<>>
    /\ relay_steps = <<>>
    /\ circuit_breakers = <<>>
    /\ advance_calls = <<>>
    /\ EmptyMemory
    /\ EmptyCouncil
    /\ ret = [op |-> "init"]
    /\ callers = [c \in Callers |-> Idle]

\* get_next_task applied, repeatedly, to every store of at most MaxTasks rows.
QueueSpec == QueueInit /\ [][get_next_task]_vars

RelayNext ==
    \/ \E l \in AgentLists, b \in TokenBudgets : create_relay_pipeline(l, b)
    \/ \E p \in 1..MaxPipelines, a \in AdvanceArgs : advance_relay(p, a)
    \/ \E p \in 1..MaxPipelines : get_relay_status(p)
    \/ \E p \in 1..MaxPipelines : get_relay_baton(p)
    \/ \E s \in {"None", "pending", "in_progress", "completed"} :
          list_relay_pipelines(s)

RelaySpec == Init /\ [][RelayNext]_vars

BreakerNext ==
    \/ \E a \in BreakerAgents : circuit_breaker_status(a)
    \/ \E a \in BreakerAgents : circuit_breaker_record_failure(a)
    \/ \E a \in BreakerAgents : circuit_breaker_reset(a)
    \/ Tick
    \/ \E seconds \in Waits : Elapse(seconds)

BreakerSpec == Init /\ [][BreakerNext]_vars

TaskConcNext ==
    \/ \E p \in Priorities, d \in DepLists : create_task(p, d)
    \/ \E c \in Callers : get_next_task_select(c)
    \/ \E c \in Callers : get_next_task_mark(c)

\* Batches of entities created in an empty memory store.
CreateSpec == Init /\ [][\E batch \in Batches : create_entities(batch)]_vars

SearchNext ==
    \/ \E item \in EntityInputs : create_entities(<<item>>)
    \/ \E query \in Queries, limit \in Limits : search_nodes(query, limit)

\* Searches of a memory store that entities are added to one at a time.
SearchSpec == Init /\ [][SearchNext]_vars

WorkingNext ==
    \/ \E k \in ContextKeys, ttl \in Ttls :
          add_to_working_memory(k, DefaultWorkingPriority, ttl)
    \/ \E k \in ContextFilters, limit \in WorkingLimits :
          AccessedBelow(MaxAccess) /\ get_working_memory(k, limit)
    \/ autonomous_memory_curation
    \/ Tick

\* The working memory and its two readers, with the clock in minutes.
WorkingSpec == Init /\ [][WorkingNext]_vars

\* Working memories of items added in the first minute and read since, each
\* one access short of promotion.
StoredWorking ==
    UNION {[1..n -> {[context_key |-> k, priority |-> DefaultWorkingPriority,
                      ttl_minutes |-> ttl, created_at |-> 1,
                      expires_at |-> 1 + ttl,
                      access_count |-> PromotionThreshold - 1] :
                     k \in ContextKeys, ttl \in Ttls}] :
           n \in 0..MaxItems}

CurationInit ==
    /\ now = 1
    /\ working_memory \in StoredWorking
    /\ entities = <<>>
    /\ observations = <<>>
    /\ entity_versions = <<>>
    /\ episodic_memory = <<>>
    /\ semantic_memory = <<>>
    /\ EmptyCouncil
    /\ goals = <<>>
    /\ tasks = <<>>
    /\ pipelines = <<>>
    /\ relay_steps = <<>>
    /\ circuit_breakers = <<>>
    /\ advance_calls = <<>>
    /\ ret = [op |-> "init"]
    /\ callers = [c \in Callers |-> Idle]

CurationNext ==
    \/ \E k \in ContextFilters, limit \in WorkingLimits :
          /\ AccessedBelow(PromotionThreshold + 1)
          /\ get_working_memory(k, limit)
    \/ autonomous_memory_curation
    \/ Tick

EntityNames == {item.name : item \in EntityInputs} \cup {<<"z">>}
VersionArgs == {NULL, 1, 2}

VersionNext ==
    \/ \E item \in EntityInputs : create_entities(<<item>>)
    \/ \E name \in EntityNames, version1, version2 \in VersionArgs :
          memory_diff(name, version1, version2)

\* Diffs of the versions of entities created one at a time.
VersionSpec == Init /\ [][VersionNext]_vars

Questions == {"", "q"}
AvailableLists ==
    {<<>>, <<"claude">>, <<"claude", "gemini">>,
     <<"claude", "codex", "gemini">>}

CouncilNext ==
    \/ \E question \in Questions, save \in BOOLEAN :
          council_deliberate(question, save)
    \/ \E prompt \in Questions, available \in AvailableLists :
          council_compare_providers(prompt, available)
    \/ \E q \in DOMAIN queries : query_cli_provider(q)
    \/ \E q \in DOMAIN queries : ProcessExits(q)
    \/ Stage1Gathered
    \/ Stage2Gathered
    \/ Stage3Returned
    \/ CompareGathered

\* One council_deliberate or council_compare_providers call, from the
\* request to the handler's return, with its provider subprocesses.
CouncilSpec == Init /\ [][CouncilNext]_vars

SavedQuestions == {"q", "r", "s"}
SavedResults ==
    {[success |-> TRUE, stage3 |-> final_answer] :
        final_answer \in {Synthesis, SynthesisFailed,
                          Fallback(Answer("claude")),
                          Fallback(Answer("gemini"))}}

SaveNext ==
    \/ \E question \in SavedQuestions, result \in SavedResults :
          save_conversation(question, result)
    \/ Tick

\* Evaluations that rank all the responses, one of them, one of them after
\* a label of no response, and none.
PartialEvaluations ==
    {Evaluation(<<"B", "A", "C">>, <<"B", "A", "C">>),
     Evaluation(<<"A">>, <<"A">>),
     Evaluation(<<"D", "A">>, <<"D", "A">>),
     Evaluation(<<>>, <<>>)}

\* The outputs of a fan-out to the first n council models.
OutputsOf(n, texts) ==
    {[i \in 1..n |->
         [provider |-> CLI_COUNCIL_MODELS[i],
          result |-> [content |-> f[i], error |-> "None"]]] :
       f \in [1..n -> texts]}

Stage1Outputs ==
    OutputsOf(Len(CLI_COUNCIL_MODELS), {Answer("x"), EmptyText})
Stage2Outputs ==
    UNION {OutputsOf(n, PartialEvaluations) : n \in 0..MaxEvaluators}

RankingNext ==
    \E stage1 \in Stage1Outputs, stage2 \in Stage2Outputs :
       synthesis_prompt("q", stage1, stage2)

\* Stage 1 and Stage 2 outputs of every kind, aggregated for the chairman.
RankingSpec == Init /\ [][RankingNext]_vars

PatternNext ==
    \/ \E question \in Questions, rounds \in 0..MaxRounds :
          council_run_pattern(question, rounds)
    \/ \E q \in DOMAIN queries : query_cli_provider(q)
    \/ \E q \in DOMAIN queries : ProcessExits(q)
    \/ RoundRobinAnswered

\* One council_run_pattern call of the round robin pattern, from the
\* request to the handler's return, with its provider subprocesses.
PatternSpec == Init /\ [][PatternNext]_vars

\* Conversations saved as the clock runs.
SaveSpec == Init /\ [][SaveNext]_vars

EventTypes == {"x"}
Significances == {Float_0_5, Float_0_8, Float_1_0}

LearnNext ==
    \/ \E e \in EventTypes, s \in Significances :
          add_episode(e, [note |-> "n"], s)
    \/ \E e \in EventTypes, id \in 1..MaxEpisodes :
          add_concept(ConceptName(e, id), "fact", "d", Float_0_5)
    \/ autonomous_memory_curation

\* Episodes and concepts added by hand, and curation runs over them.
LearnSpec == Init /\ [][LearnNext]_vars

PromoteNext ==
    \/ \E k \in ContextKeys :
          add_to_working_memory(k, DefaultWorkingPriority, 1)
    \/ \E k \in ContextFilters :
          /\ AccessedBelow(PromotionThreshold + 1)
          /\ get_working_memory(k, DefaultWorkingLimit)
    \/ autonomous_memory_curation

\* Items added to an empty working memory, read up to promotion and curated.
PromoteSpec == Init /\ [][PromoteNext]_vars

\* Reads and curation runs of working memories about to be promoted.
CurationSpec == CurationInit /\ [][CurationNext]_vars

\* Callers of get_next_task in separate server processes on one store.
TaskConcSpec == Init /\ [][TaskConcNext]_vars

\* Pipelines of at least one step: the callers race for a real step.
RelayConcNext ==
    \/ \E l \in AgentLists \ {<<>>}, b \in TokenBudgets :
          create_relay_pipeline(l, b)
    \/ \E c \in Callers, p \in 1..MaxPipelines, a \in AdvanceArgs :
          advance_relay_select(c, p, a)
    \/ \E c \in Callers : advance_relay_commit(c)

\* Callers of advance_relay in separate server processes on one store.
RelayConcSpec == Init /\ [][RelayConcNext]_vars

\* ------------------------------------------------------------ properties
\* Every id of the dependencies list of task i names a completed task.
AllDepsCompleted(T, i) ==
    \A d \in {T[i].dependencies[k] : k \in DOMAIN T[i].dependencies} :
        d \in DOMAIN T /\ T[d].status = "completed"

\* C1: a task leaves pending for in_progress or completed only in a state
\* where every task of its dependencies list is completed.
C1_LeavesPendingWithDepsCompleted ==
    [][\A t \in DOMAIN tasks :
          (tasks[t].status = "pending"
           /\ tasks'[t].status \in {"in_progress", "completed"})
          => AllDepsCompleted(tasks, t)]_vars

CompletedSteps(S) == {i \in DOMAIN S : S[i].status = "completed"}

\* C2: for every relay pipeline, current_step is the number of its steps
\* with status completed, and the pipeline is completed exactly when
\* current_step is the length of agent_types.
C2_CurrentStepCountsCompletedSteps ==
    \A p \in DOMAIN pipelines :
        /\ pipelines[p].current_step =
              Cardinality(CompletedSteps(relay_steps[p]))
        /\ pipelines[p].status = "completed"
              <=> pipelines[p].current_step = Len(pipelines[p].agent_types)

\* C3: a breaker is open exactly when its failure_count has reached its
\* failure_threshold (so it opens at the call that reaches the threshold and
\* never earlier), and circuit_breaker_record_failure returns state open with
\* tripped = true exactly when the count it returns has reached the threshold.
C3_OpensExactlyAtThreshold ==
    /\ \A a \in DOMAIN circuit_breakers :
          circuit_breakers[a].state = "open"
             <=> circuit_breakers[a].failure_count
                    >= circuit_breakers[a].failure_threshold
    /\ ret.op = "circuit_breaker_record_failure"
          => /\ ret.tripped <=> ret.failure_count >= DefaultFailureThreshold
             /\ ret.tripped <=> ret.state = "open"

\* C3 witness: the fifth consecutive failure of an agent has just been
\* recorded and returned state open with tripped = true.
C3_Witness ==
    \E a \in DOMAIN circuit_breakers :
        /\ circuit_breakers[a].state = "open"
        /\ circuit_breakers[a].failure_count = DefaultFailureThreshold
        /\ circuit_breakers[a].last_success_at = NULL
        /\ ret = [op |-> "circuit_breaker_record_failure", agent_id |-> a,
                  state |-> "open",
                  failure_count |-> DefaultFailureThreshold,
                  tripped |-> TRUE]

Qualifying(T) ==
    {i \in DOMAIN T : T[i].status = "pending" /\ AllDepsCompleted(T, i)}

\* C4: get_next_task returns a pending task whose dependencies are all
\* completed, of the highest priority among those and of the earliest
\* created_at among those of that priority; it changes only that task, to
\* in_progress with started_at = now; when no pending task has all its
\* dependencies completed it returns None and changes nothing.
C4_NextTaskIsHighestPriorityReady ==
    [][get_next_task =>
         LET Q == Qualifying(tasks)
             id == ret'.task_id
         IN IF Q = {}
            THEN id = NoTask /\ tasks' = tasks
            ELSE /\ id \in Q
                 /\ \A e \in Q :
                       /\ tasks[e].priority <= tasks[id].priority
                       /\ tasks[e].priority = tasks[id].priority
                             => tasks[id].created_at <= tasks[e].created_at
                 /\ tasks' = [tasks EXCEPT ![id].status = "in_progress",
                                           ![id].started_at = now]]_vars

\* C4 witness: get_next_task has just returned a task, now in_progress with
\* started_at = now, while a task of higher priority stays pending because
\* its dependencies are not completed.
C4_Witness ==
    /\ ret.op = "get_next_task"
    /\ ret.task_id # NoTask
    /\ tasks[ret.task_id].status = "in_progress"
    /\ tasks[ret.task_id].started_at = now
    /\ \E t \in DOMAIN tasks :
          /\ tasks[t].status = "pending"
          /\ tasks[t].priority > tasks[ret.task_id].priority
          /\ ~AllDepsCompleted(tasks, t)

Returned(c, op) == callers[c].pc = "returned" /\ callers[c].op = op

\* C5: of two advance_relay calls that read the same current_step of the
\* same pipeline, at most one commits; the other returns an error.
C5_SecondCommitterFails ==
    \A c1, c2 \in Callers :
        (/\ c1 # c2
         /\ Returned(c1, "advance_relay") /\ Returned(c2, "advance_relay")
         /\ callers[c1].pipeline_id = callers[c2].pipeline_id
         /\ callers[c1].read_step = callers[c2].read_step)
        => \/ "error" \in DOMAIN callers[c1].result
           \/ "error" \in DOMAIN callers[c2].result

\* C6: no task is returned by get_next_task to two callers (no task goes
\* back to pending in TaskConcSpec, so each task makes the transition from
\* pending to in_progress at most once).
C6_NoTaskReturnedTwice ==
    \A c1, c2 \in Callers :
        (/\ c1 # c2
         /\ Returned(c1, "get_next_task") /\ Returned(c2, "get_next_task")
         /\ callers[c1].task_id # NoTask)
        => callers[c1].task_id # callers[c2].task_id

\* C7: no step changes the status of a task that is completed or cancelled.
C7_CompletedAndCancelledAreAbsorbing ==
    [][\A t \in DOMAIN tasks :
          tasks[t].status \in {"completed", "cancelled"}
          => tasks'[t].status = tasks[t].status]_vars

\* C8: a pipeline that has not been advanced is pending; a pipeline of at
\* least two agent types that has been advanced and has current_step below
\* the number of its agent types is stored as in_progress, and
\* get_relay_status and list_relay_pipelines report it so.
C8_AdvancedPipelineIsInProgress ==
    /\ \A p \in DOMAIN pipelines :
          LET pipeline == pipelines[p]
          IN /\ pipeline.current_step = 0 => pipeline.status = "pending"
             /\ (/\ Len(pipeline.agent_types) >= 2
                 /\ pipeline.current_step >= 1
                 /\ pipeline.current_step < Len(pipeline.agent_types))
                => pipeline.status = "in_progress"
    /\ (/\ ret.op = "get_relay_status"
        /\ "error" \notin DOMAIN ret
        /\ ret.total_steps >= 2
        /\ ret.current_step >= 1
        /\ ret.current_step < ret.total_steps)
       => ret.status = "in_progress"
    /\ ret.op = "list_relay_pipelines"
       => \A e \in ret.pipelines :
             (e.total >= 2 /\ e.current_step >= 1 /\ e.current_step < e.total)
             => e.status = "in_progress"

\* C9: advance_relay on a pipeline whose status is completed returns an
\* error and leaves the pipeline row and its relay steps as they were.
C9_AdvanceOfCompletedPipelineIsRejected ==
    [][\A p \in DOMAIN pipelines, a \in AdvanceArgs :
          (advance_relay(p, a) /\ pipelines[p].status = "completed")
          => /\ "error" \in DOMAIN ret'
             /\ pipelines'[p] = pipelines[p]
             /\ relay_steps'[p] = relay_steps[p]]_vars

\* C10: tokens_used of a pipeline never exceeds its token_budget, and the
\* tokens_remaining that advance_relay and get_relay_baton return is never
\* negative.
C10_TokensWithinBudget ==
    /\ \A p \in DOMAIN pipelines :
          pipelines[p].tokens_used <= pipelines[p].token_budget
    /\ (ret.op \in {"advance_relay", "get_relay_baton"}
        /\ "tokens_remaining" \in DOMAIN ret)
       => ret.tokens_remaining >= 0

RECURSIVE SumTokens(_)
SumTokens(calls) ==
    IF calls = <<>> THEN 0
    ELSE calls[Len(calls)].tokens_used
         + SumTokens(SubSeq(calls, 1, Len(calls) - 1))

\* C11: for a pipeline of n >= 1 agent types, get_relay_baton returns, before
\* any advance_relay call, the first agent type and an empty baton; after the
\* k-th call (1 <= k < n) it returns agent_types[k] (0-based), the budget
\* minus the tokens of the k calls, and a baton whose previous_step is k - 1
\* and whose scores, entity and summary are the k-th call's arguments.
C11_BatonIsThePreviousStepsOutput ==
    (ret.op = "get_relay_baton" /\ "error" \notin DOMAIN ret)
    => LET pipeline == pipelines[ret.pipeline_id]
           calls == advance_calls[ret.pipeline_id]
           n == Len(pipeline.agent_types)
           k == Len(calls)
       IN /\ (k = 0 /\ n >= 1)
             => /\ ret.current_agent = pipeline.agent_types[1]
                /\ ret.baton_data = <<>>
          /\ (1 <= k /\ k < n)
             => /\ ret.current_agent = pipeline.agent_types[k + 1]
                /\ ret.tokens_remaining =
                      pipeline.token_budget - SumTokens(calls)
                /\ ret.baton_data =
                      [previous_step |-> k - 1,
                       quality_score |-> calls[k].quality_score,
                       l_score |-> calls[k].l_score,
                       output_entity_id |-> calls[k].output_entity_id,
                       summary |-> calls[k].output_summary]

\* get_relay_baton has answered after the second of two different
\* advance_relay calls on a pipeline of three agent types.
C11_Witness ==
    /\ ret.op = "get_relay_baton"
    /\ "error" \notin DOMAIN ret
    /\ Len(pipelines[ret.pipeline_id].agent_types) = 3
    /\ Len(advance_calls[ret.pipeline_id]) = 2
    /\ advance_calls[ret.pipeline_id][1] # advance_calls[ret.pipeline_id][2]

\* C12: a circuit_breaker_status query on a breaker that is open and whose
\* cooldown_seconds have elapsed reports half_open.  The breaker opened no
\* later than its last recorded failure, so a cooldown counted from
\* last_failure_at has elapsed since it opened as well.
C12_OpenPastCooldownIsReportedHalfOpen ==
    [][\A a \in BreakerAgents :
          (/\ circuit_breaker_status(a)
           /\ HasBreaker(a)
           /\ circuit_breakers[a].state = "open"
           /\ now - circuit_breakers[a].last_failure_at
                 >= circuit_breakers[a].cooldown_seconds)
          => ret'.state = "half_open"]_vars

\* C13: a step that leaves a breaker open leaves its opened_at at the time of
\* the step when the step opened the breaker, and as it was when the
\* breaker was open already.
C13_OpenedAtIsTheTimeOfOpening ==
    [][\A a \in DOMAIN circuit_breakers' :
          circuit_breakers'[a].state = "open"
          => circuit_breakers'[a].opened_at =
               IF HasBreaker(a) /\ circuit_breakers[a].state = "open"
               THEN circuit_breakers[a].opened_at
               ELSE now]_vars

\* C14: a recorded failure opens a closed breaker only if the failure
\* recorded before it, which is counted towards the threshold with it, is
\* no more than window_seconds old.
C14_OpensOnlyWithinWindow ==
    [][\A a \in BreakerAgents :
          (/\ circuit_breaker_record_failure(a)
           /\ HasBreaker(a)
           /\ circuit_breakers[a].state = "closed"
           /\ circuit_breakers'[a].state = "open"
           /\ circuit_breakers[a].failure_count >= 1)
          => now - circuit_breakers[a].last_failure_at
               <= circuit_breakers[a].window_seconds]_vars

\* C15: circuit_breaker_reset leaves the agent with no breaker other than a
\* closed one of failure_count 0 and answers closed; the next
\* circuit_breaker_status for the agent reports closed with failure_count
\* 0; and each recorded failure adds one to the count, opening the breaker
\* no earlier than at failure_threshold.
C15_ResetClosesAndClears ==
    [][\A a \in BreakerAgents :
          /\ circuit_breaker_reset(a)
             => /\ ret'.state = "closed"
                /\ a \in DOMAIN circuit_breakers'
                   => /\ circuit_breakers'[a].state = "closed"
                      /\ circuit_breakers'[a].failure_count = 0
          /\ (/\ circuit_breaker_status(a)
              /\ ret.op = "circuit_breaker_reset"
              /\ ret.agent_id = a)
             => /\ ret'.state = "closed"
                /\ ret'.failure_count = 0
          /\ circuit_breaker_record_failure(a)
             => /\ circuit_breakers'[a].failure_count =
                     1 + (IF HasBreaker(a)
                          THEN circuit_breakers[a].failure_count ELSE 0)
                /\ (/\ circuit_breakers'[a].state = "open"
                    /\ ~(HasBreaker(a) /\ circuit_breakers[a].state = "open"))
                   => circuit_breakers'[a].failure_count
                        >= circuit_breakers'[a].failure_threshold]_vars

\* A breaker that was reset after failures has been opened again, by the
\* failure_threshold-th failure recorded since.
C15_Witness ==
    /\ ret.op = "circuit_breaker_record_failure"
    /\ ret.tripped
    /\ circuit_breakers[ret.agent_id].last_success_at # NULL
    /\ circuit_breakers[ret.agent_id].last_failure_at
         > circuit_breakers[ret.agent_id].last_success_at
    /\ circuit_breakers[ret.agent_id].failure_count =
         circuit_breakers[ret.agent_id].failure_threshold

\* The contents of an entity's rows in a table O of observations, in id
\* order.
ObservationsIn(O, entity_id) ==
    LET rows == SelectSeq(O, LAMBDA o : o.entity_id = entity_id)
    IN [i \in DOMAIN rows |-> rows[i].content]

\* C16: every stored entity has exactly one entity_versions row of
\* version_number 1; its snapshot holds the entity's name, type and
\* observations, and its commit message is 'Initial creation'.
C16_EveryEntityHasItsInitialVersion ==
    \A id \in DOMAIN entities :
        LET first == {v \in DOMAIN entity_versions :
                        /\ entity_versions[v].entity_id = id
                        /\ entity_versions[v].version_number = 1}
        IN /\ Cardinality(first) = 1
           /\ \A v \in first :
                /\ entity_versions[v].snapshot =
                     [name |-> entities[id].name,
                      type |-> entities[id].entity_type,
                      observations |-> ObservationsIn(observations, id)]
                /\ entity_versions[v].commit_message = "Initial creation"

\* A batch with a failing item has been stored next to other entities.
C16_Witness ==
    /\ ret.op = "create_entities"
    /\ ret.errors >= 1
    /\ ret.created >= 1
    /\ Len(entities) >= 2
    /\ \E id \in DOMAIN entities : ObservationsIn(observations, id) # <<>>

\* C17: create_entities reports each item whose name is already stored, or
\* is the name of an earlier item of the batch, in its error list and adds
\* no row for it; it creates every other item, with its observations and
\* one version; and no two stored entities have the same name.  (A step of
\* create_entities(batch) returns as many outcomes as the batch has items,
\* under the names of its items: the formula looks at those batches only.)
C17_DuplicateNamesAreRejectedAlone ==
    [][\A batch \in Batches :
          (/\ ret'.op = "create_entities"
           /\ Len(batch) = ret'.created + ret'.errors
           /\ {batch[i].name : i \in DOMAIN batch} =
                 {ret'.entities[c].name : c \in DOMAIN ret'.entities}
                 \cup {ret'.error_messages[m].name :
                          m \in DOMAIN ret'.error_messages}
           /\ create_entities(batch))
          => LET duplicates ==
                   {i \in DOMAIN batch :
                      \/ \E id \in DOMAIN entities :
                            entities[id].name = batch[i].name
                      \/ \E j \in 1..(i - 1) : batch[j].name = batch[i].name}
                 others == DOMAIN batch \ duplicates
                 added == DOMAIN entities' \ DOMAIN entities
             IN /\ Len(ret'.error_messages) = Cardinality(duplicates)
                /\ \A i \in duplicates :
                      \E m \in DOMAIN ret'.error_messages :
                         ret'.error_messages[m] =
                            [error |-> "already exists",
                             name |-> batch[i].name]
                /\ Cardinality(added) = Cardinality(others)
                /\ \A i \in others :
                      \E id \in added :
                         /\ entities'[id].name = batch[i].name
                         /\ ObservationsIn(observations', id) =
                               batch[i].observations
                         /\ \E c \in DOMAIN ret'.entities :
                               ret'.entities[c].id = id
                /\ \A id \in DOMAIN entities : entities'[id] = entities[id]
                /\ \A o \in DOMAIN observations' :
                      \/ /\ o \in DOMAIN observations
                         /\ observations'[o] = observations[o]
                      \/ /\ o \notin DOMAIN observations
                         /\ observations'[o].entity_id \in added
                /\ \A v \in DOMAIN entity_versions' :
                      \/ /\ v \in DOMAIN entity_versions
                         /\ entity_versions'[v] = entity_versions[v]
                      \/ /\ v \notin DOMAIN entity_versions
                         /\ entity_versions'[v].entity_id \in added
                /\ Len(entity_versions') =
                      Len(entity_versions) + Cardinality(added)
                /\ \A id1, id2 \in DOMAIN entities' :
                      entities'[id1].name = entities'[id2].name
                      => id1 = id2]_vars

\* A batch has created an entity and rejected a later item of the same name.
C17_Witness ==
    /\ ret.op = "create_entities"
    /\ \E c \in DOMAIN ret.entities, m \in DOMAIN ret.error_messages :
          ret.error_messages[m].name = ret.entities[c].name

\* C18: a stored entity's importance is 0.5, plus 0.2 if its name or one of
\* its observations contains a keyword, plus 0.1 if it has more than three
\* observations, and its tier is semantic from 0.8, episodic from 0.6 and
\* working below; an entity with a keyword and more than three observations
\* has importance 0.8 and tier semantic.
C18_ImportanceAndTierFollowTheHeuristic ==
    \A id \in DOMAIN entities :
        LET obs == ObservationsIn(observations, id)
            keyword ==
                \E kw \in Keywords :
                   \/ Contains(ToLower(entities[id].name), kw)
                   \/ \E i \in DOMAIN obs : Contains(ToLower(obs[i]), kw)
            many == Len(obs) > 3
            expected == IF keyword /\ many THEN Float_0_8
                        ELSE IF keyword THEN Float_0_7
                        ELSE IF many THEN Float_0_6
                        ELSE Float_0_5
        IN /\ entities[id].importance_score = expected
           /\ entities[id].tier =
                IF keyword /\ many THEN "semantic"
                ELSE IF keyword \/ many THEN "episodic"
                ELSE "working"

\* q is a substring, without regard to case, of the entity's name or of one
\* of its observations.
HasSubstring(id, q) ==
    \/ Contains(ToLower(entities[id].name), ToLower(q))
    \/ \E o \in DOMAIN observations :
          /\ observations[o].entity_id = id
          /\ Contains(ToLower(observations[o].content), ToLower(q))

C20_ReadersPurgeExpiredItems ==
    [][(\/ /\ ret'.op = "get_working_memory"
           /\ \E k \in ContextFilters, limit \in WorkingLimits :
                 get_working_memory(k, limit)
        \/ /\ ret'.op = "autonomous_memory_curation"
           /\ autonomous_memory_curation)
       => /\ \A id \in Stored(working_memory') :
                working_memory'[id].expires_at >= now
          /\ ret'.op = "get_working_memory"
             => \A i \in DOMAIN ret'.results :
                   /\ ret'.results[i].expires_at >= now
                   /\ ret'.results[i].id \in Stored(working_memory')]_vars

\* get_working_memory has returned an item and purged an expired one.
C20_Witness ==
    /\ ret.op = "get_working_memory"
    /\ Len(ret.results) >= 1
    /\ \E id \in DOMAIN working_memory : working_memory[id] = Purged

\* The stored items a curation run at the present time promotes.
Due == {id \in Stored(working_memory) :
          /\ working_memory[id].expires_at >= now
          /\ working_memory[id].access_count >= PromotionThreshold}

\* The episodes of Ep after the first n that are promotions of context k.
PromotionsOf(Ep, n, k) ==
    {e \in DOMAIN Ep : /\ e > n
                       /\ Ep[e].event_type = "promoted_from_working"
                       /\ Ep[e].episode_data = [context |-> k]}

\* C21: a get_working_memory call adds one access to each item it returns
\* and none to the others; a curation run inserts one promoted_from_working
\* episode for each unexpired working item of access_count >= 5, none for
\* the others, and returns working_to_episodic = the number inserted.
C21_OneAccessPerGetOnePromotionPerDueItem ==
    [][/\ (/\ ret'.op = "get_working_memory"
           /\ \E k \in ContextFilters, limit \in WorkingLimits :
                 get_working_memory(k, limit))
          => LET got == {ret'.results[i].id : i \in DOMAIN ret'.results}
             IN \A id \in Stored(working_memory') :
                   working_memory'[id].access_count =
                      working_memory[id].access_count
                         + (IF id \in got THEN 1 ELSE 0)
       /\ (ret'.op = "autonomous_memory_curation"
           /\ autonomous_memory_curation)
          => LET n == Len(episodic_memory)
             IN /\ Len(episodic_memory') = n + Cardinality(Due)
                /\ ret'.promotions.working_to_episodic
                      = Len(episodic_memory') - n
                /\ \A e \in 1..n : episodic_memory'[e] = episodic_memory[e]
                /\ \A k \in ContextKeys :
                      Cardinality(PromotionsOf(episodic_memory', n, k))
                         = Cardinality({id \in Due :
                              working_memory[id].context_key = k})]_vars

\* C21 witness: a curation run has just promoted one item, read up to five
\* accesses, and left alone an item still at four.
C21_Witness ==
    /\ ret.op = "autonomous_memory_curation"
    /\ ret.promotions.working_to_episodic = 1
    /\ Len(episodic_memory) = 1
    /\ episodic_memory[1].event_type = "promoted_from_working"
    /\ \E a, b \in Stored(working_memory) :
          /\ working_memory[a].access_count = PromotionThreshold
          /\ working_memory[b].access_count = PromotionThreshold - 1

\* C22: a curation run that directly follows a curation run adds no episode
\* and no semantic concept.
C22_SecondRunAddsNothing ==
    [][(/\ ret.op = "autonomous_memory_curation"
        /\ ret'.op = "autonomous_memory_curation"
        /\ autonomous_memory_curation)
       => /\ episodic_memory' = episodic_memory
          /\ semantic_memory' = semantic_memory]_vars

\* C23: after a curation run every episode of significance >= 0.8 has
\* exactly one concept named learned_<event_type>_<id>; the concepts that
\* existed before the run are unchanged, and episodic_to_semantic counts the
\* concepts the run added (so an existing name is skipped, not counted, and
\* the episodes after it are still processed).
C23_EverySignificantEpisodeHasItsConcept ==
    [][(ret'.op = "autonomous_memory_curation" /\ autonomous_memory_curation)
       => /\ \A e \in DOMAIN episodic_memory' :
                FloatGeq(episodic_memory'[e].significance_score, Float_0_8)
                => Cardinality(
                      {c \in DOMAIN semantic_memory' :
                          semantic_memory'[c].concept_name =
                             ConceptName(episodic_memory'[e].event_type, e)})
                   = 1
          /\ \A c \in DOMAIN semantic_memory :
                semantic_memory'[c] = semantic_memory[c]
          /\ ret'.promotions.episodic_to_semantic =
                Len(semantic_memory') - Len(semantic_memory)]_vars

\* C23 witness: a curation run over two episodes of significance >= 0.8 has
\* just found the first one's name taken by a concept added by hand, left
\* that concept as it was, and derived and counted the second one's concept.
C23_Witness ==
    /\ ret.op = "autonomous_memory_curation"
    /\ ret.promotions.episodic_to_semantic = 1
    /\ Len(episodic_memory) = 2
    /\ \A e \in 1..2 :
          FloatGeq(episodic_memory[e].significance_score, Float_0_8)
    /\ Len(semantic_memory) = 2
    /\ semantic_memory[1] =
          [concept_name |-> ConceptName(episodic_memory[1].event_type, 1),
           concept_type |-> "fact", definition |-> "d",
           confidence_score |-> Float_0_5]
    /\ semantic_memory[2].concept_name =
          ConceptName(episodic_memory[2].event_type, 2)
    /\ semantic_memory[2].concept_type = "derived_pattern"

\* C24: memory_diff(e, v, v), for a stored entity e and the number v of one
\* of its versions, returns no error and empty added_observations and
\* removed_observations.
C24_DiffOfAVersionWithItselfIsEmpty ==
    [][\A name \in EntityNames, v \in VersionArgs \ {NULL} :
          (/\ ret'.op = "memory_diff"
           /\ \E id \in DOMAIN entities :
                 /\ entities[id].name = name
                 /\ \E w \in VersionsOf(id) :
                       entity_versions[w].version_number = v
           /\ memory_diff(name, v, v))
          => /\ "error" \notin DOMAIN ret'
             /\ ret'.changes = [added_observations |-> <<>>,
                                removed_observations |-> <<>>]]_vars

\* The labels of the evaluators' parsed rankings, ranking after ranking.
RECURSIVE Appearances(_)
Appearances(rankings) ==
    IF rankings = <<>> THEN <<>>
    ELSE rankings[1].parsed_ranking \o Appearances(Tail(rankings))

FirstAppearance(rankings, label) ==
    LET all == Appearances(rankings)
    IN CHOOSE i \in DOMAIN all :
          all[i] = label /\ \A j \in 1..(i - 1) : all[j] # label

\* C25: in the aggregate rankings of a run a candidate of lower mean rank
\* comes first, and of two candidates of equal mean rank the one that
\* appears first in the evaluators' rankings comes first.
C25_AggregateByMeanThenFirstAppearance ==
    (ret.op = "council_deliberate" /\ "result" \in DOMAIN ret
     /\ ret.result.success)
    => LET rankings == ret.result.stage2.rankings
           aggregate == ret.result.stage2.aggregate_rankings
           Less(a, b) == Sum(a.positions) * Len(b.positions)
                            < Sum(b.positions) * Len(a.positions)
           Equal(a, b) == Sum(a.positions) * Len(b.positions)
                             = Sum(b.positions) * Len(a.positions)
       IN \A i, j \in DOMAIN aggregate :
             i < j =>
                \/ Less(aggregate[i], aggregate[j])
                \/ /\ Equal(aggregate[i], aggregate[j])
                   /\ FirstAppearance(rankings, aggregate[i].label)
                         < FirstAppearance(rankings, aggregate[j].label)

\* The council run has returned its result.
RunReturned == ret.op = "council_deliberate" /\ "result" \in DOMAIN ret

\* C26: a council run returns success = false, with the error 'No
\* responses collected in Stage 1', exactly when no Stage 1 query returned
\* content, and then no Stage 2 or Stage 3 query was issued; the Stage 3
\* query is issued only when every Stage 2 query has returned.
C26_RunFailsOnlyWithoutResponses ==
    /\ RunReturned
          => /\ ~ret.result.success
                   <=> \A q \in QueriesOf(1) :
                          ~Truthy(queries[q].result.content)
             /\ ~ret.result.success
                   => /\ ret.result.error
                            = "No responses collected in Stage 1"
                      /\ QueriesOf(2) = {}
                      /\ QueriesOf(3) = {}
    /\ QueriesOf(3) # {}
          => /\ Cardinality(QueriesOf(2)) = Len(CLI_COUNCIL_MODELS)
             /\ \A q \in QueriesOf(2) : queries[q].state = "returned"

\* C26 witness: a run has returned success = true although one provider
\* failed in Stage 1 and another one timed out in Stage 2.
C26_Witness ==
    /\ RunReturned
    /\ ret.result.success
    /\ \E q \in QueriesOf(1) : queries[q].result.error = "exit code"
    /\ \E q \in QueriesOf(2) : queries[q].result.error = "Timeout"
    /\ QueriesOf(3) # {}

\* The result of the chairman's query.
ChairmanResult == queries[CHOOSE q \in QueriesOf(3) : TRUE].result

\* C27: when the chairman's query fails in a run that collected a Stage 1
\* response, the run returns success = true and stage3 is the prefixed
\* top-ranked Stage 1 response, also when the aggregate ranking is empty.
C27_ChairmanFailureFallsBackToAResponse ==
    (/\ RunReturned
     /\ \E q \in QueriesOf(1) : Truthy(queries[q].result.content)
     /\ ~Truthy(ChairmanResult.content))
    => /\ ret.result.success
       /\ \E i \in DOMAIN ret.result.stage1 :
             /\ ret.result.stage3 = Fallback(ret.result.stage1[i].content)
             /\ ret.result.stage2.aggregate_rankings # <<>>
                   => ret.result.stage1[i].model
                         = ret.result.stage2.aggregate_rankings[1].model

\* C28: council_compare_providers, which returns what
\* query_providers_parallel gave it, returns one result per listed
\* provider, in the order of the list, each the result of that provider's
\* own query, and returns when every query has returned; the fan-outs of a
\* council run likewise end only when each of their queries has returned.
C28_OneResultPerProviderInInputOrder ==
    /\ (ret.op = "council_compare_providers" /\ "results" \in DOMAIN ret)
          => LET Q == SelectSeq(queries, LAMBDA query : query.stage = 0)
             IN /\ Len(Q) = Len(ret.providers_queried)
                /\ Len(ret.results) = Len(ret.providers_queried)
                /\ \A i \in DOMAIN ret.results :
                      /\ ret.results[i].provider = ret.providers_queried[i]
                      /\ Q[i].provider = ret.providers_queried[i]
                      /\ Q[i].state = "returned"
                      /\ ret.results[i].response = Q[i].result.content
                      /\ ret.results[i].error = Q[i].result.error
    /\ council.pc \in {"stage2", "stage3"}
          => /\ Cardinality(QueriesOf(1)) = Len(CLI_COUNCIL_MODELS)
             /\ \A q \in QueriesOf(1) : queries[q].state = "returned"

\* C28 witness: three providers were queried; the first one timed out, the
\* third one failed, and the second one's answer is returned in its place.
C28_Witness ==
    /\ ret.op = "council_compare_providers"
    /\ "results" \in DOMAIN ret
    /\ ret.providers_queried = <<"claude", "codex", "gemini">>
    /\ ret.results =
          <<[provider |-> "claude", response |-> None, error |-> "Timeout"],
            [provider |-> "codex", response |-> Answer("codex"),
             error |-> "None"],
            [provider |-> "gemini", response |-> None,
             error |-> "exit code"]>>

\* C29: a query that has returned on its deadline has content None and no
\* subprocess running.
C29_TimedOutQueryLeavesNoSubprocess ==
    \A q \in DOMAIN queries :
        (queries[q].state = "returned" /\ queries[q].result.error = "Timeout")
        => /\ queries[q].result.content = None
           /\ queries[q].process # "running"

\* C30: save_conversation replaces no conversation file and returns an id
\* that no saved conversation had.
C30_SaveNeverOverwrites ==
    [][(ret'.op = "save_conversation"
        /\ \E question \in SavedQuestions, result \in SavedResults :
              save_conversation(question, result))
       => /\ \A id \in DOMAIN conversations :
                conversations'[id] = conversations[id]
          /\ ret'.conversation_id \notin DOMAIN conversations]_vars

\* C31: a task that enters in_progress, through get_next_task or through
\* update_task_status, has started_at set from then on, and a task that
\* enters it again keeps the started_at of its first entry.
C31_StartedAtIsTheFirstEntry ==
    [][\A t \in DOMAIN tasks :
          (tasks[t].status # "in_progress"
           /\ tasks'[t].status = "in_progress")
          => /\ tasks'[t].started_at # NULL
             /\ tasks[t].started_at # NULL
                   => tasks'[t].started_at = tasks[t].started_at]_vars

\* The priorities and the dependencies of the rows, in id order.
PrioritiesOf(rows) == [i \in DOMAIN rows |-> rows[i].priority]
DependenciesOf(rows) == [i \in DOMAIN rows |-> rows[i].dependencies]

\* C32: decompose_goal on an existing goal appends exactly the tasks of its
\* strategy, pending and in template order: sequential five tasks of
\* priorities 10, 9, 8, 7, 6, each after the first depending on exactly its
\* predecessor; parallel three of priorities 10, 9, 8 without
\* dependencies; hierarchical five of priorities 10, 9, 8, 7, 6 without
\* dependencies.
C32_DecomposeCreatesTheTemplate ==
    [][\A g \in DOMAIN goals :
         \A strategy \in {"sequential", "parallel", "hierarchical"} :
          (ret'.op = "decompose_goal" /\ decompose_goal(g, strategy))
          => LET n == Len(tasks)
                 rows == SubSeq(tasks', n + 1, Len(tasks'))
             IN /\ SubSeq(tasks', 1, n) = tasks
                /\ ret'.task_ids = [i \in DOMAIN rows |-> n + i]
                /\ \A i \in DOMAIN rows :
                      /\ rows[i].status = "pending"
                      /\ rows[i].goal_id = g
                      /\ rows[i].title
                            = <<Template(strategy)[i], goals[g].name>>
                /\ strategy = "sequential"
                      => /\ PrioritiesOf(rows) = <<10, 9, 8, 7, 6>>
                         /\ DependenciesOf(rows)
                               = <<<<>>, <<n + 1>>, <<n + 2>>, <<n + 3>>,
                                   <<n + 4>>>>
                /\ strategy = "parallel"
                      => /\ PrioritiesOf(rows) = <<10, 9, 8>>
                         /\ DependenciesOf(rows) = <<<<>>, <<>>, <<>>>>
                /\ strategy = "hierarchical"
                      => /\ PrioritiesOf(rows) = <<10, 9, 8, 7, 6>>
                         /\ DependenciesOf(rows)
                               = <<<<>>, <<>>, <<>>, <<>>, <<>>>>]_vars

\* C32 witness: a sequential decomposition has just created tasks 1 to 5,
\* the last one, Document, of priority 6 and depending on task 4.
C32_Witness ==
    /\ ret.op = "decompose_goal"
    /\ "task_ids" \in DOMAIN ret
    /\ ret.strategy = "sequential"
    /\ ret.task_ids = <<1, 2, 3, 4, 5>>
    /\ Len(tasks) = 5
    /\ tasks[5].title[1] = "Document"
    /\ tasks[5].priority = 6
    /\ tasks[5].dependencies = <<4>>

\* C33: update_task_status naming an id of no task returns an error object
\* and leaves the tasks unchanged; it does not report success.
C33_UnknownTaskIdIsAnError ==
    [][(ret'.op = "update_task_status" /\ ret'.task_id \notin DOMAIN tasks)
       => /\ "error" \in DOMAIN ret'
          /\ tasks' = tasks]_vars

\* C34: without an embedding model generate_embeddings returns for every
\* text a vector of exactly 384 components, and the same text always
\* yields the same vector.
C34_EmbeddingsHave384Components ==
    (ret.op = "generate_embeddings" /\ "embeddings" \in DOMAIN ret)
    => /\ Len(ret.embeddings) = Len(ret.texts)
       /\ \A i \in DOMAIN ret.texts :
             /\ Len(ret.embeddings[i]) = 384
             /\ \A j \in DOMAIN ret.texts :
                   ret.texts[i] = ret.texts[j]
                   => ret.embeddings[i] = ret.embeddings[j]

Completes(t) ==
    /\ t \in DOMAIN tasks
    /\ tasks[t].status # "completed"
    /\ tasks'[t].status = "completed"

\* C35: with fair workers every task of a store whose dependencies name
\* stored tasks and form no cycle is eventually completed (no task is ever
\* removed, so it is enough that again and again all the stored tasks are
\* completed), and no task is completed before the tasks it depends on:
\* the tasks of a sequential decomposition are completed in template order.
C35_EveryTaskIsCompletedInOrder ==
    /\ []<>(\A t \in DOMAIN tasks : tasks[t].status = "completed")
    /\ [][\A t \in DOMAIN tasks :
            Completes(t)
            => \A k \in DOMAIN tasks[t].dependencies :
                  tasks[tasks[t].dependencies[k]].status = "completed"]_vars

\* C35 witness: the five tasks of a sequential decomposition are completed,
\* the worker having just completed Document.
C35_Witness ==
    /\ Len(tasks) >= 5
    /\ ret.op = "update_task_status"
    /\ tasks[ret.task_id].title[1] = "Document"
    /\ tasks[ret.task_id].dependencies # <<>>
    /\ \A t \in DOMAIN tasks : tasks[t].status = "completed"

\* The ids a task depends on, and those it reaches through dependencies.
DepsOf(T, t) ==
    IF t \in DOMAIN T
    THEN {T[t].dependencies[k] : k \in DOMAIN T[t].dependencies}
    ELSE {}

RECURSIVE ReachedWithin(_, _, _)
ReachedWithin(T, S, n) ==
    IF n = 0 THEN S
    ELSE ReachedWithin(T, S \cup UNION {DepsOf(T, d) : d \in S}, n - 1)

OnCycle(T, t) == t \in ReachedWithin(T, DepsOf(T, t), Len(T))

\* A dependency that names no task or the task itself, or a task that is on
\* a cycle of dependencies.
Unmeetable(T, t) ==
    \/ \E d \in DepsOf(T, t) : d \notin DOMAIN T \/ d = t
    \/ OnCycle(T, t)

\* C36: get_next_task never returns a pending task that has a dependency on
\* an id of no task or on itself, or that is on a dependency cycle, and such
\* a task does not keep it from returning a pending task whose dependencies
\* are all completed.
C36_UnmeetableTasksAreSkipped ==
    [][(ret'.op = "get_next_task" /\ get_next_task)
       => /\ ret'.task_id \in DOMAIN tasks
                => ~Unmeetable(tasks, ret'.task_id)
          /\ Qualifying(tasks) # {} => ret'.task_id # NoTask]_vars

\* C37: a pipeline that was advanced and is not completed has exactly one
\* step in_progress, the one of step_index = current_step; the steps before
\* it are completed and the steps after it are pending.
C37_OneStepInProgress ==
    \A p \in DOMAIN pipelines :
        (pipelines[p].current_step >= 1 /\ pipelines[p].status # "completed")
        => \A i \in DOMAIN relay_steps[p] :
              relay_steps[p][i].status
                 = CASE i - 1 < pipelines[p].current_step -> "completed"
                     [] i - 1 = pipelines[p].current_step -> "in_progress"
                     [] OTHER -> "pending"

\* C38: an episode that curation made of a working item has significance
\* 0.7, below the 0.8 of the step from episodes to concepts: no run of
\* add_to_working_memory, get_working_memory and autonomous_memory_curation
\* calls yields a concept.
C38_NoConceptFromAWorkingItem ==
    /\ \A e \in DOMAIN episodic_memory :
          episodic_memory[e].event_type = "promoted_from_working"
          => /\ episodic_memory[e].significance_score = Float_0_7
             /\ ~FloatGeq(episodic_memory[e].significance_score, Float_0_8)
    /\ semantic_memory = <<>>
    /\ ret.op = "autonomous_memory_curation"
          => ret.promotions.episodic_to_semantic = 0

\* C38 witness: a curation run has gone over an episode made of a working
\* item read more often than the threshold asks.
C38_Witness ==
    /\ ret.op = "autonomous_memory_curation"
    /\ ret.promotions.working_to_episodic >= 1
    /\ \E id \in Stored(working_memory) :
          working_memory[id].access_count > PromotionThreshold
    /\ Len(episodic_memory) >= 2
    /\ semantic_memory = <<>>

\* The number of times a label stands in the parsed rankings.
Votes(rankings, label) ==
    Cardinality({<<r, p>> \in (DOMAIN rankings) \X (1..MaxLabels) :
                    /\ p \in DOMAIN rankings[r].parsed_ranking
                    /\ rankings[r].parsed_ranking[p] = label})

\* C39: aggregate_rankings has an entry for exactly the labels of
\* label_to_model that some parsed ranking names: a response no evaluator
\* ranked is absent, not last, and the chairman prompt built from the
\* aggregate leaves it out.  A label of no response gets no entry, and the
\* labels after it keep the positions they stand at.
C39_UnrankedResponsesAreAbsent ==
    ret.op = "synthesis_prompt"
    => LET aggregate == ret.aggregate_rankings
           mapping == ret.label_to_model
           ranked == ret.prompt.ranked_responses
       IN /\ Len(aggregate) <= Len(mapping)
          /\ \A i \in DOMAIN mapping :
                (\E k \in DOMAIN aggregate :
                    aggregate[k].label = mapping[i].label)
                <=> Votes(ret.rankings, mapping[i].label) > 0
          /\ \A k \in DOMAIN aggregate :
                /\ \E i \in DOMAIN mapping :
                      /\ mapping[i].label = aggregate[k].label
                      /\ mapping[i].model = aggregate[k].model
                /\ aggregate[k].vote_count
                      = Votes(ret.rankings, aggregate[k].label)
                /\ Len(aggregate[k].positions) = aggregate[k].vote_count
                /\ \A r \in DOMAIN ret.rankings :
                      \A p \in DOMAIN ret.rankings[r].parsed_ranking :
                         ret.rankings[r].parsed_ranking[p]
                            = aggregate[k].label
                         => \E v \in DOMAIN aggregate[k].positions :
                               aggregate[k].positions[v] = p
          /\ [k \in DOMAIN ranked |-> ranked[k].model]
                = [k \in DOMAIN aggregate |-> aggregate[k].model]

\* C39 witness: three responses and one evaluator that ranks Response D,
\* a label of no response, before Response A: the aggregate and the prompt
\* hold the response of A alone, at position 2.
C39_Witness ==
    /\ ret.op = "synthesis_prompt"
    /\ Len(ret.label_to_model) = 3
    /\ Len(ret.rankings) = 1
    /\ ret.rankings[1].parsed_ranking = <<"D", "A">>
    /\ Len(ret.aggregate_rankings) = 1
    /\ ret.aggregate_rankings[1].label = "A"
    /\ ret.aggregate_rankings[1].positions = <<2>>
    /\ ret.aggregate_rankings[1].average_rank = 200
    /\ Len(ret.prompt.ranked_responses) = 1

\* The content of the last of the first n calls that did not fail, the
\* empty string when there is none.
RECURSIVE LastSuccess(_)
LastSuccess(n) ==
    IF n = 0 THEN EmptyText
    ELSE IF queries[n].result.error = "None" THEN queries[n].result.content
    ELSE LastSuccess(n - 1)

\* C40: round_robin makes rounds x |models| calls, one after another in the
\* order of the models; a failed call leaves the running answer as it was:
\* every call is asked to refine the content of the last call before it that
\* did not fail, and final_answer is the content of the last call that did
\* not fail.
C40_FailedCallKeepsTheAnswer ==
    /\ Cardinality({q \in DOMAIN queries : queries[q].state = "running"})
          <= 1
    /\ (ret.op = "council_run_pattern" /\ "stages" \in DOMAIN ret)
       => /\ Len(queries) = ret.rounds * Len(CLI_COUNCIL_MODELS)
          /\ \A q \in DOMAIN queries :
                /\ queries[q].provider
                      = CLI_COUNCIL_MODELS[
                           ((q - 1) % Len(CLI_COUNCIL_MODELS)) + 1]
                /\ queries[q].prompt
                      = RefinePrompt(ret.question, LastSuccess(q - 1))
          /\ ret.final_answer = LastSuccess(Len(queries))

====
